---------------------------- MODULE Spec2Model ----------------------------
(***************************************************************************)
(* Chat backend: the single-table store (rooms, memberships, messages,     *)
(* username reservations, user profiles), the username registry of         *)
(* AuthService, the room directory of RoomsService and the websocket       *)
(* gateway with its Redis relay.                                            *)
(*                                                                         *)
(* Strings are sequences of one-character strings, so that trim,           *)
(* toLowerCase, the regular expressions and the lexical order of sort keys *)
(* are computed and not assumed.  A key prefix such as "USERNAME#" is one  *)
(* token at the head of the sequence.                                      *)
(*                                                                         *)
(* Every handler is cut at its awaits: one action per store or broker      *)
(* round trip, so that calls of any number of server instances interleave  *)
(* exactly where the code suspends.                                        *)
(***************************************************************************)
EXTENDS Integers, Sequences, FiniteSets, TLC

VARIABLES
    table,      \* the DynamoDB table: key [PK, SK] -> item
    authCalls,  \* calls of AuthService methods, in invocation order
    roomCalls,  \* calls of RoomsService methods, in invocation order
    usedIds,    \* the UUIDs randomUUID() has returned so far
    gateways,   \* per instance, its ChatGateway: redisEnabled, and whether the
                \* broker has acknowledged its SUBSCRIBE to the channel
    conns,      \* socket.io connections of the gateways: id -> connection
    channel,    \* Redis channel 'chat': per instance, frames published and not yet received
    inbox       \* per connection, the newMessage events emitted to it, in order

vars == <<table, authCalls, roomCalls, usedIds, gateways, conns, channel, inbox>>

----------------------------------------------------------------------------
(* Strings *)

\* The characters the model's strings use, in code point order.
CodeOrder ==
    <<" ", "#", "-", "0", "1", "2", "3", "4", "5", "6", "7", "8", "9", "@",
      "A", "B", "N", "O", "_", "a", "b", "c", "d", "e", "n", "o", "r", "s", "u", "x">>

\* Key prefixes, in the lexical order of the strings they stand for.
PrefixOrder == <<"MEMBER#", "META", "MSG#", "PROFILE", "ROOM#", "USER", "USER#", "USERNAME#">>

Code(ch) ==
    IF \E i \in DOMAIN PrefixOrder : PrefixOrder[i] = ch
    THEN 1000 + (CHOOSE i \in DOMAIN PrefixOrder : PrefixOrder[i] = ch)
    ELSE CHOOSE i \in DOMAIN CodeOrder : CodeOrder[i] = ch

\* s < t in the lexical order of strings
RECURSIVE StrLess(_, _)
StrLess(s, t) ==
    IF t = <<>> THEN FALSE
    ELSE IF s = <<>> THEN TRUE
    ELSE IF Head(s) = Head(t) THEN StrLess(Tail(s), Tail(t))
    ELSE Code(Head(s)) < Code(Head(t))

Digits == {"0", "1", "2", "3", "4", "5", "6", "7", "8", "9"}
LowerLetters == {"a", "b", "c", "d", "e", "n", "o", "r", "s", "u", "x"}
UsernameChars == LowerLetters \cup Digits \cup {"_"}

ToLowerChar(ch) ==
    CASE ch = "A" -> "a"
      [] ch = "B" -> "b"
      [] ch = "N" -> "n"
      [] ch = "O" -> "o"
      [] OTHER -> ch

ToLowerCase(s) == [i \in DOMAIN s |-> ToLowerChar(s[i])]

\* white space as String.prototype.trim() knows it (those used here)
Whitespace == {" ", "\t", "\n"}

RECURSIVE TrimStart(_)
TrimStart(s) == IF s # <<>> /\ Head(s) \in Whitespace THEN TrimStart(Tail(s)) ELSE s

RECURSIVE TrimEnd(_)
TrimEnd(s) ==
    IF s # <<>> /\ s[Len(s)] \in Whitespace THEN TrimEnd(SubSeq(s, 1, Len(s) - 1)) ELSE s

\* a text taken as it came
Untrimmed(s) == s

\* s.trim()
Trim(s) == TrimEnd(TrimStart(s))

\* s.slice(0, n)
Slice(s, n) == SubSeq(s, 1, IF Len(s) < n THEN Len(s) ELSE n)

\* the decimal digits of n >= 0
RECURSIVE Decimal(_)
Decimal(n) ==
    LET d == CodeOrder[4 + (n % 10)]
    IN  IF n < 10 THEN <<d>> ELSE Append(Decimal(n \div 10), d)


----------------------------------------------------------------------------
(* The store: one DynamoDB table, items keyed by (PK, SK) *)

Key(pk, sk) == [PK |-> pk, SK |-> sk]

NoItem == [entity |-> "NONE"]

EmptyTable == [k \in {} |-> NoItem]

\* GetCommand: the item, or nothing
GetItem(t, k) == IF k \in DOMAIN t THEN t[k] ELSE NoItem

\* ConditionExpression of a write on key k:
\*   "not_exists"  attribute_not_exists(PK) [AND attribute_not_exists(SK)]
\*   "exists"      attribute_exists(PK) AND attribute_exists(SK)
\*   "none"        no condition
CondHolds(t, k, cond) ==
    CASE cond = "not_exists" -> k \notin DOMAIN t
      [] cond = "exists"     -> k \in DOMAIN t
      [] OTHER               -> TRUE

WriteItem(t, k, item) == [x \in DOMAIN t \cup {k} |-> IF x = k THEN item ELSE t[x]]

RemoveItem(t, k) == [x \in DOMAIN t \ {k} |-> t[x]]

\* One element of TransactItems
PutOp(k, item, cond) == [kind |-> "Put", key |-> k, item |-> item, cond |-> cond]
DeleteOp(k) == [kind |-> "Delete", key |-> k, item |-> NoItem, cond |-> "none"]

ApplyOp(t, op) ==
    IF op.kind = "Put" THEN WriteItem(t, op.key, op.item) ELSE RemoveItem(t, op.key)

RECURSIVE ApplyOps(_, _)
ApplyOps(t, ops) ==
    IF ops = <<>> THEN t ELSE ApplyOps(ApplyOp(t, Head(ops)), Tail(ops))

\* TransactWriteCommand: every condition is evaluated on the table as it is,
\* and either every write is applied or none (TransactionCanceledException).
TransactOk(t, ops) == \A i \in DOMAIN ops : CondHolds(t, ops[i].key, ops[i].cond)

\* (mutant) the writes sent one by one: each is applied if its own condition holds
RECURSIVE SeparateWrites(_, _)
SeparateWrites(t, ops) ==
    IF ops = <<>> THEN t
    ELSE SeparateWrites(
             IF CondHolds(t, Head(ops).key, Head(ops).cond) THEN ApplyOp(t, Head(ops)) ELSE t,
             Tail(ops))

TransactWrite(t, ops) == IF TransactOk(t, ops) THEN ApplyOps(t, ops) ELSE t

\* Key builders of the item schema
UsernameKey(name) == Key(<<"USERNAME#">> \o name, <<"USER">>)
ProfileKey(userId) == Key(<<"USER#">> \o userId, <<"PROFILE">>)

UsernameItem(userId, name) ==
    [entity |-> "USERNAME", userId |-> userId, username |-> name]

\* A profile item.  firstName, lastName, displayName, picture, email and the
\* timestamps travel with the item unchanged and are not represented.
ProfileItem(userId, name) ==
    [entity |-> "USER_PROFILE", userId |-> userId, username |-> name]

----------------------------------------------------------------------------
(* AuthService: the username registry *)

MinUsernameLen == 3
MaxUsernameLen == 30
MaxAttempts == 20
IdPrefixLen == 8

\* /^[a-z0-9_]{3,30}$/.test(s)
MatchesUsernamePattern(s) ==
    /\ Len(s) >= MinUsernameLen
    /\ Len(s) <= MaxUsernameLen
    /\ \A i \in DOMAIN s : s[i] \in UsernameChars

\* normalizeUsername: the normalized name, or null (the empty string here:
\* both are falsy and no valid name is empty)
normalizeUsername(raw) ==
    LET normalized == ToLowerCase(Trim(raw))
    IN  IF MatchesUsernamePattern(normalized) THEN normalized ELSE <<>>

\* s.replace(/[^a-z0-9_]/g, '_')
ReplaceInvalid(s) == [i \in DOMAIN s |-> IF s[i] \in UsernameChars THEN s[i] ELSE "_"]

\* s.replace(/_+/g, '_')
RECURSIVE CollapseUnderscores(_)
CollapseUnderscores(s) ==
    IF Len(s) < 2 THEN s
    ELSE IF s[1] = "_" /\ s[2] = "_" THEN CollapseUnderscores(Tail(s))
    ELSE <<s[1]>> \o CollapseUnderscores(Tail(s))

\* s.replace(/^_+|_+$/g, '')
RECURSIVE StripUnderscores(_)
StripUnderscores(s) ==
    IF s # <<>> /\ Head(s) = "_" THEN StripUnderscores(Tail(s))
    ELSE IF s # <<>> /\ s[Len(s)] = "_" THEN StripUnderscores(SubSeq(s, 1, Len(s) - 1))
    ELSE s

\* email.split('@')[0]
RECURSIVE BeforeAt(_)
BeforeAt(s) ==
    IF s = <<>> \/ Head(s) = "@" THEN <<>> ELSE <<Head(s)>> \o BeforeAt(Tail(s))

SyntheticUsername(userId) == <<"u", "s", "e", "r">> \o Slice(userId, IdPrefixLen)

\* buildBaseUsername(userInfo, userId); an undefined claim is the empty string
buildBaseUsername(userInfo, userId) ==
    LET preferred == Trim(userInfo.preferred_username)
        fromEmail == BeforeAt(Trim(userInfo.email))
        raw == IF preferred # <<>> THEN preferred
               ELSE IF fromEmail # <<>> THEN fromEmail
               ELSE SyntheticUsername(userId)
        normalized == ReplaceInvalid(ToLowerCase(raw))
        collapsed == StripUnderscores(CollapseUnderscores(normalized))
    IN  IF collapsed # <<>> THEN collapsed ELSE SyntheticUsername(userId)

\* (mutant) every candidate suffixed, the first one too
CandidateSuffixed(base, attempt) == base \o <<"_">> \o Decimal(attempt + 1)

\* the candidate of attempt 0, 1, 2, ...: base, base_2, base_3, ...
Candidate(base, attempt) ==
    IF attempt = 0 THEN base ELSE base \o <<"_">> \o Decimal(attempt + 1)


\* Bounds: the number of AuthService calls of one behaviour
MaxAuthCalls == 3
MaxRenameCalls == 4
MaxRaceCalls == 3

NoInfo == [sub |-> <<>>, preferred_username |-> <<>>, email |-> <<>>]

\* A call of an AuthService method: its arguments, where it is suspended
\* (pc), its locals, and what it returned or threw (result, ret).
\*   writes    the write requests (Put, TransactWrite) it has sent
\*   reserved  the username whose reservation item it created, if any
NewAuthCall(op, userId) ==
    [op |-> op, pc |-> "get", userId |-> userId,
     raw |-> <<>>, hasUsername |-> FALSE, info |-> NoInfo,
     profile |-> NoItem, nextUsername |-> <<>>, nextProfile |-> NoItem,
     currentUsername |-> <<>>, attempt |-> 0, base |-> <<>>,
     result |-> "pending", ret |-> <<>>, writes |-> 0, reserved |-> <<>>]

\* the call returns ret (result "ok") or throws; its locals are dropped
Finish(call, result, ret) ==
    [NewAuthCall(call.op, call.userId) EXCEPT
        !.pc = "done", !.raw = call.raw, !.hasUsername = call.hasUsername,
        !.info = call.info, !.nextUsername = call.nextUsername,
        !.currentUsername = call.currentUsername,
        !.result = result, !.ret = ret,
        !.writes = call.writes, !.reserved = call.reserved]

AuthFrame == UNCHANGED <<roomCalls, usedIds, gateways, conns, channel, inbox>>

\* profile.username of a fetched item (undefined -> empty)
UsernameOf(item) == IF item = NoItem THEN <<>> ELSE item.username

(* updateUsernameForUser(userId, nextUsernameRaw) *)

\* (mutant) a rename that never takes the early return
NeverSame(currentUsername, nextUsername) == FALSE

\* lines 449-452: the username asked for is the one the profile holds
SameUsername(currentUsername, nextUsername) == currentUsername = nextUsername

\* lines 428-452: normalize and reject; the profile as the GetCommand reads
\* it; an unchanged username returns at once
UpdateUsernameGet(userId, raw) ==
    /\ LET nextUsername == normalizeUsername(raw)
           call == [NewAuthCall("updateUsernameForUser", userId) EXCEPT
                       !.raw = raw, !.nextUsername = nextUsername]
           item == GetItem(table, ProfileKey(userId))
           currentUsername == ToLowerCase(UsernameOf(item))
       IN  authCalls' = Append(authCalls,
               IF nextUsername = <<>> THEN Finish(call, "InvalidUsername", <<>>)
               ELSE IF item = NoItem THEN Finish(call, "ProfileNotFound", <<>>)
               ELSE IF SameUsername(currentUsername, nextUsername)
               THEN Finish(call, "ok", nextUsername)
               ELSE [call EXCEPT !.pc = "txn", !.profile = item,
                                 !.currentUsername = currentUsername])
    /\ UNCHANGED table
    /\ AuthFrame

\* (mutant) the new reservation is put without its ConditionExpression
UpdateUsernameItemsUnconditional(userId, profile, nextUsername, currentUsername) ==
    <<PutOp(UsernameKey(nextUsername), UsernameItem(userId, nextUsername), "none"),
      PutOp(ProfileKey(userId), [profile EXCEPT !.username = nextUsername], "exists")>>
    \o (IF currentUsername # <<>> THEN <<DeleteOp(UsernameKey(currentUsername))>> ELSE <<>>)

\* lines 458-497: the TransactItems of a username change
UpdateUsernameItems(userId, profile, nextUsername, currentUsername) ==
    <<PutOp(UsernameKey(nextUsername), UsernameItem(userId, nextUsername), "not_exists"),
      PutOp(ProfileKey(userId), [profile EXCEPT !.username = nextUsername], "exists")>>
    \o (IF currentUsername # <<>> THEN <<DeleteOp(UsernameKey(currentUsername))>> ELSE <<>>)

\* (mutant) the catch block rethrows whatever the store threw
Rethrow(errorName) == errorName

\* lines 500-512 and 375-387: the catch block of the transaction: a
\* TransactionCanceledException, whatever cancelled it, becomes
\* BadRequestException('Username is already taken'); any other error is
\* rethrown; nothing is sent again
CatchTransact(errorName) ==
    IF errorName = "TransactionCanceledException" THEN "UsernameTaken" ELSE errorName

\* lines 455-514: the transaction, and its cancellation as 'Username is already taken'
UpdateUsernameTransact(c) ==
    /\ authCalls[c].op = "updateUsernameForUser"
    /\ authCalls[c].pc = "txn"
    /\ LET call == authCalls[c]
           items == UpdateUsernameItems(call.userId, call.profile,
                                        call.nextUsername, call.currentUsername)
           sent == [call EXCEPT !.writes = @ + 1]
       IN  /\ table' = TransactWrite(table, items)
           /\ authCalls' = [authCalls EXCEPT ![c] =
                  IF TransactOk(table, items)
                  THEN Finish([sent EXCEPT !.reserved = call.nextUsername],
                              "ok", call.nextUsername)
                  ELSE Finish(sent, CatchTransact("TransactionCanceledException"), <<>>)]
    /\ AuthFrame

(* updateProfileForUser(userId, input); input.username may be undefined *)

\* lines 280-321: the next profile, computed from the profile as the
\* GetCommand reads it
UpdateProfileGet(userId, hasUsername, raw) ==
    /\ LET call == [NewAuthCall("updateProfileForUser", userId) EXCEPT
                       !.hasUsername = hasUsername, !.raw = raw]
           item == GetItem(table, ProfileKey(userId))
           nextUsername == IF hasUsername THEN normalizeUsername(raw)
                           ELSE ToLowerCase(UsernameOf(item))
           nextProfile == [item EXCEPT !.username =
                              IF nextUsername # <<>> THEN nextUsername ELSE item.username]
           currentUsername == ToLowerCase(UsernameOf(item))
           finalUsername == ToLowerCase(nextProfile.username)
           usernameChanged == finalUsername # <<>> /\ finalUsername # currentUsername
       IN  authCalls' = Append(authCalls,
               IF item = NoItem THEN Finish(call, "ProfileNotFound", <<>>)
               ELSE IF hasUsername /\ nextUsername = <<>>
               THEN Finish(call, "InvalidUsername", <<>>)
               ELSE [call EXCEPT !.pc = IF usernameChanged THEN "txn" ELSE "put",
                                 !.profile = item, !.nextProfile = nextProfile,
                                 !.nextUsername = finalUsername,
                                 !.currentUsername = currentUsername])
    /\ UNCHANGED table
    /\ AuthFrame

\* lines 323-332: no username change: the whole next profile is put back
UpdateProfilePut(c) ==
    /\ authCalls[c].op = "updateProfileForUser"
    /\ authCalls[c].pc = "put"
    /\ LET call == authCalls[c]
           k == ProfileKey(call.userId)
           sent == [call EXCEPT !.writes = @ + 1]
       IN  IF CondHolds(table, k, "exists")
           THEN /\ table' = WriteItem(table, k, call.nextProfile)
                /\ authCalls' = [authCalls EXCEPT ![c] =
                       Finish(sent, "ok", call.nextProfile.username)]
           ELSE /\ table' = table
                /\ authCalls' = [authCalls EXCEPT ![c] =
                       Finish(sent, "ConditionalCheckFailed", <<>>)]
    /\ AuthFrame

\* lines 337-372: the TransactItems of a username change
UpdateProfileItems(userId, nextProfile, finalUsername, currentUsername) ==
    <<PutOp(UsernameKey(finalUsername), UsernameItem(userId, finalUsername), "not_exists"),
      PutOp(ProfileKey(userId), nextProfile, "exists")>>
    \o (IF currentUsername # <<>> THEN <<DeleteOp(UsernameKey(currentUsername))>> ELSE <<>>)

\* lines 334-389
UpdateProfileTransact(c) ==
    /\ authCalls[c].op = "updateProfileForUser"
    /\ authCalls[c].pc = "txn"
    /\ LET call == authCalls[c]
           items == UpdateProfileItems(call.userId, call.nextProfile,
                                       call.nextUsername, call.currentUsername)
           sent == [call EXCEPT !.writes = @ + 1]
       IN  /\ table' = TransactWrite(table, items)
           /\ authCalls' = [authCalls EXCEPT ![c] =
                  IF TransactOk(table, items)
                  THEN Finish([sent EXCEPT !.reserved = call.nextUsername],
                              "ok", call.nextUsername)
                  ELSE Finish(sent, CatchTransact("TransactionCanceledException"), <<>>)]
    /\ AuthFrame

(* ensureUserProfile(userInfo), called by handleCallback at sign-in *)

\* lines 518-538: a profile that has a username is returned as it is
EnsureUserProfileGet(userInfo) ==
    /\ LET userId == userInfo.sub
           call == [NewAuthCall("ensureUserProfile", userId) EXCEPT !.info = userInfo]
           existing == GetItem(table, ProfileKey(userId))
       IN  authCalls' = Append(authCalls,
               IF userId = <<>> THEN Finish(call, "NoSub", <<>>)
               ELSE IF UsernameOf(existing) # <<>> THEN Finish(call, "ok", existing.username)
               ELSE [call EXCEPT !.pc = "reserve", !.attempt = 0,
                                 !.base = buildBaseUsername(userInfo, userId)])
    /\ UNCHANGED table
    /\ AuthFrame

\* lines 540-561 and 595: one turn of the loop, the conditional put of the
\* candidate's reservation; a failed put moves on to the next attempt
EnsureUserProfileReserve(c) ==
    /\ authCalls[c].op = "ensureUserProfile"
    /\ authCalls[c].pc = "reserve"
    /\ LET call == authCalls[c]
           candidate == Candidate(call.base, call.attempt)
           k == UsernameKey(candidate)
           sent == [call EXCEPT !.writes = @ + 1]
       IN  IF CondHolds(table, k, "not_exists")
           THEN /\ table' = WriteItem(table, k, UsernameItem(call.userId, candidate))
                /\ authCalls' = [authCalls EXCEPT ![c] =
                       [sent EXCEPT !.pc = "profile", !.reserved = candidate]]
           ELSE /\ table' = table
                /\ authCalls' = [authCalls EXCEPT ![c] =
                       IF call.attempt + 1 < MaxAttempts
                       THEN [sent EXCEPT !.attempt = @ + 1]
                       ELSE Finish(sent, "CannotAllocateUsername", <<>>)]
    /\ AuthFrame

\* lines 563-592: the conditional put of the profile; its failure is not caught
EnsureUserProfilePut(c) ==
    /\ authCalls[c].op = "ensureUserProfile"
    /\ authCalls[c].pc = "profile"
    /\ LET call == authCalls[c]
           k == ProfileKey(call.userId)
           sent == [call EXCEPT !.writes = @ + 1]
       IN  IF CondHolds(table, k, "not_exists")
           THEN /\ table' = WriteItem(table, k, ProfileItem(call.userId, call.reserved))
                /\ authCalls' = [authCalls EXCEPT ![c] = Finish(sent, "ok", call.reserved)]
           ELSE /\ table' = table
                /\ authCalls' = [authCalls EXCEPT ![c] =
                       Finish(sent, "ConditionalCheckFailed", <<>>)]
    /\ AuthFrame

----------------------------------------------------------------------------
(* RoomsService: the room directory *)

\* the most keys one BatchWriteCommand of deleteRoom carries
BatchSize == 25

\* Date.prototype.toISOString of the instant t (milliseconds): every field
\* has a fixed width, which the two decimal places here stand for
IsoWidth == 2

RECURSIVE PadStart(_, _)
PadStart(s, width) == IF Len(s) >= width THEN s ELSE PadStart(<<"0">> \o s, width)

\* (mutant) the instant printed without leading zeros
DecimalString(t) == Decimal(t)

toISOString(t) == PadStart(Decimal(t), IsoWidth)

\* new Date(s).getTime() of an ISO string
RECURSIVE ParseInstant(_)
ParseInstant(s) ==
    IF s = <<>> THEN 0
    ELSE 10 * ParseInstant(SubSeq(s, 1, Len(s) - 1))
         + ((CHOOSE i \in DOMAIN CodeOrder : CodeOrder[i] = s[Len(s)]) - 4)

RoomPK(roomId) == <<"ROOM#">> \o roomId
RoomKey(roomId) == Key(RoomPK(roomId), <<"META">>)
MemberKey(roomId, userId) == Key(RoomPK(roomId), <<"MEMBER#">> \o userId)

\* (mutant) a message written under the sort key of the room's metadata
MessageAtMeta(roomId, createdAt, messageId) == RoomKey(roomId)

MessageKey(roomId, createdAt, messageId) ==
    Key(RoomPK(roomId), <<"MSG#">> \o createdAt \o <<"#">> \o messageId)

RoomItem(roomId, roomName, roomType, adminId, createdAt) ==
    [entity |-> "ROOM", roomId |-> roomId, roomName |-> roomName,
     roomType |-> roomType, createdBy |-> adminId, createdAt |-> createdAt]

MemberItem(roomId, userId, role, roomName, roomType, createdAt) ==
    [entity |-> "MEMBERSHIP", userId |-> userId, roomId |-> roomId, role |-> role,
     roomName |-> roomName, roomType |-> roomType, createdAt |-> createdAt,
     GSI1PK |-> <<"USER#">> \o userId,
     GSI1SK |-> <<"ROOM#">> \o createdAt \o <<"#">> \o roomId]

MessageItem(roomId, messageId, userId, username, text, createdAt) ==
    [entity |-> "MESSAGE", messageId |-> messageId, roomId |-> roomId,
     userId |-> userId, username |-> username, text |-> text, createdAt |-> createdAt]

\* the keys of a set, ascending by sort key
RECURSIVE SortKeys(_)
SortKeys(S) ==
    IF S = {} THEN <<>>
    ELSE LET first == CHOOSE k \in S : \A j \in S \ {k} : StrLess(k.SK, j.SK)
         IN  <<first>> \o SortKeys(S \ {first})

IsPrefix(p, s) == Len(p) <= Len(s) /\ SubSeq(s, 1, Len(p)) = p

\* QueryCommand on the table, KeyConditionExpression 'PK = :pk' [AND
\* begins_with(SK, :prefix)], after ExclusiveStartKey if one is given: the
\* keys of the matching items in ascending sort key order
QueryKeys(t, pk, prefix, startKey) ==
    SortKeys({k \in DOMAIN t :
                 /\ k.PK = pk
                 /\ IsPrefix(prefix, k.SK)
                 /\ (startKey # NoItem => StrLess(startKey.SK, k.SK))})

\* a page of at most limit items; LastEvaluatedKey is set when the page is full
PageOf(keys, limit) == SubSeq(keys, 1, IF Len(keys) < limit THEN Len(keys) ELSE limit)
LastEvaluatedKey(keys, limit) == IF Len(keys) >= limit THEN keys[limit] ELSE NoItem

\* (mutant) the items of a page sent as one batch
OneChunk(items, size) == IF items = <<>> THEN <<>> ELSE <<items>>

\* chunkBy(items, size)
RECURSIVE chunkBy(_, _)
chunkBy(items, size) ==
    IF items = <<>> THEN <<>>
    ELSE IF Len(items) <= size THEN <<items>>
    ELSE <<SubSeq(items, 1, size)>> \o chunkBy(SubSeq(items, size + 1, Len(items)), size)

\* BatchWriteCommand of DeleteRequests: deleting an absent item is no error
RECURSIVE BatchDelete(_, _)
BatchDelete(t, keys) ==
    IF keys = <<>> THEN t ELSE BatchDelete(RemoveItem(t, Head(keys)), Tail(keys))

\* what a BatchWriteCommand may answer as UnprocessedItems when the store is
\* throttled: nothing, or the last of the requests
UnprocessedItems(keys) == {{}, {keys[Len(keys)]}}

\* the requests of a batch that the store carried out
Processed(keys, unprocessed) == SelectSeq(keys, LAMBDA k : k \notin unprocessed)

\* A call of a RoomsService method
NewRoomCall(op, roomId, userId) ==
    [op |-> op, pc |-> "get", roomId |-> roomId, userId |-> userId,
     name |-> <<>>, roomType |-> "GROUP", role |-> "MEMBER",
     usernames |-> <<>>, resolved |-> <<>>,
     text |-> <<>>, username |-> <<>>, createdAt |-> <<>>, messageId |-> <<>>,
     meta |-> NoItem, lastKey |-> NoItem, chunks |-> <<>>,
     conn |-> 0, result |-> "pending", ret |-> <<>>, batches |-> <<>>,
     audience |-> {}, reached |-> {}]

RoomFinish(call, result, ret) ==
    [call EXCEPT !.pc = "done", !.result = result, !.ret = ret,
                 !.meta = NoItem, !.lastKey = NoItem, !.chunks = <<>>]

RoomFrame == UNCHANGED <<authCalls, gateways, conns, channel, inbox>>

\* Array.from(new Set(xs)): first occurrences, in order
RECURSIVE Dedupe(_)
Dedupe(xs) ==
    IF xs = <<>> THEN <<>>
    ELSE LET front == Dedupe(SubSeq(xs, 1, Len(xs) - 1))
             last == xs[Len(xs)]
         IN  IF \E i \in DOMAIN front : front[i] = last THEN front ELSE Append(front, last)

RECURSIVE SelectSeqOf(_, _)
SelectSeqOf(xs, drop) ==
    IF xs = <<>> THEN <<>>
    ELSE IF Head(xs) \in drop THEN SelectSeqOf(Tail(xs), drop)
    ELSE <<Head(xs)>> \o SelectSeqOf(Tail(xs), drop)

\* lines 214-220: participantUsernames trimmed, lowercased, the empty ones
\* dropped, deduplicated
NormalizeParticipants(usernames) ==
    Dedupe(SelectSeqOf([i \in DOMAIN usernames |-> ToLowerCase(Trim(usernames[i]))], {<<>>}))

(* createRoom(name, adminId, {type, participantUsernames}) *)

\* (mutant) the creator kept among the participants
UniqueIdsWithCreator(resolved, adminId) == Dedupe(SelectSeqOf(resolved, {<<>>}))

\* lines 226-243: the participants without duplicates and without the
\* creator; the checks on the composition and on the name
UniqueParticipantIds(resolved, adminId) == Dedupe(SelectSeqOf(resolved, {<<>>, adminId}))

ComposeRoom(call) ==
    LET ids == UniqueParticipantIds(call.resolved, call.userId)
        roomName == IF call.roomType = "DIRECT" /\ call.name = <<>>
                    THEN (IF call.usernames = <<>> THEN <<>> ELSE call.usernames[1])
                    ELSE call.name
    IN  IF call.roomType = "DIRECT" /\ Len(ids) # 1
        THEN RoomFinish(call, "InvalidRoomComposition", <<>>)
        ELSE IF roomName = <<>> THEN RoomFinish(call, "RoomNameRequired", <<>>)
        ELSE [call EXCEPT !.pc = "txn", !.name = roomName, !.resolved = ids]

\* lines 210-225: the room id and the creation time are drawn, the
\* participants normalized and their lookups sent
CreateRoomCall(roomId, now, name, adminId, roomType, participantUsernames) ==
    /\ roomId \notin usedIds
    /\ LET call == [NewRoomCall("createRoom", roomId, adminId) EXCEPT
                       !.name = name, !.roomType = roomType,
                       !.createdAt = toISOString(now),
                       !.usernames = NormalizeParticipants(participantUsernames)]
       IN  roomCalls' = Append(roomCalls,
               IF call.usernames = <<>> THEN ComposeRoom(call)
               ELSE [call EXCEPT !.pc = "resolve"])
    /\ usedIds' = usedIds \cup {roomId}
    /\ UNCHANGED table
    /\ RoomFrame

\* lines 508-530: resolveUserIdByUsername of the next participant
CreateRoomResolve(c) ==
    /\ roomCalls[c].op = "createRoom"
    /\ roomCalls[c].pc = "resolve"
    /\ LET call == roomCalls[c]
           normalized == call.usernames[Len(call.resolved) + 1]
           record == GetItem(table, UsernameKey(normalized))
           next == [call EXCEPT !.resolved = Append(@, record.userId)]
       IN  roomCalls' = [roomCalls EXCEPT ![c] =
               IF record = NoItem THEN RoomFinish(call, "UserNotFound", <<>>)
               ELSE IF Len(next.resolved) = Len(call.usernames) THEN ComposeRoom(next)
               ELSE next]
    /\ UNCHANGED <<table, usedIds>>
    /\ RoomFrame

\* lines 245-288: the TransactItems of a room creation
CreateRoomItems(call) ==
    LET members == <<call.userId>> \o call.resolved
    IN  <<PutOp(RoomKey(call.roomId),
                RoomItem(call.roomId, call.name, call.roomType, call.userId, call.createdAt),
                "not_exists")>>
        \o [i \in DOMAIN members |->
               PutOp(MemberKey(call.roomId, members[i]),
                     MemberItem(call.roomId, members[i],
                                IF members[i] = call.userId THEN "ADMIN" ELSE "MEMBER",
                                call.name, call.roomType, call.createdAt),
                     "not_exists")]

\* lines 271-301
CreateRoomTransact(c) ==
    /\ roomCalls[c].op = "createRoom"
    /\ roomCalls[c].pc = "txn"
    /\ LET call == roomCalls[c]
           items == CreateRoomItems(call)
       IN  /\ table' = TransactWrite(table, items)
           /\ roomCalls' = [roomCalls EXCEPT ![c] =
                  IF TransactOk(table, items)
                  THEN RoomFinish(call, "ok", <<call.userId>> \o call.resolved)
                  ELSE RoomFinish(call, "TransactionCanceled", <<>>)]
    /\ UNCHANGED usedIds
    /\ RoomFrame

(* addUserToRoom(roomId, userId, role) *)

\* a test of the metadata read that lets every room pass
RoomNeverMissing(roomMeta) == FALSE

\* line 376: the Get of the room's metadata item returned no item
RoomMissing(roomMeta) == roomMeta = NoItem

\* a Put without ConditionExpression
NoCondition == "none"

\* line 397: the ConditionExpression of the membership Put,
\* attribute_not_exists(PK) AND attribute_not_exists(SK)
MembershipCondition == "not_exists"

\* lines 366-380: the room's metadata as read now
AddUserToRoomGet(roomId, userId, role, now) ==
    /\ LET call == [NewRoomCall("addUserToRoom", roomId, userId) EXCEPT !.role = role]
           roomMeta == GetItem(table, RoomKey(roomId))
       IN  roomCalls' = Append(roomCalls,
               IF RoomMissing(roomMeta) THEN RoomFinish(call, "RoomNotFound", <<>>)
               ELSE [call EXCEPT !.pc = "put", !.meta = roomMeta,
                                 !.createdAt = toISOString(now)])
    /\ UNCHANGED <<table, usedIds>>
    /\ RoomFrame

\* lines 381-405: the membership is put unless one exists; the store's
\* ConditionalCheckFailedException is not caught
AddUserToRoomPut(c) ==
    /\ roomCalls[c].op = "addUserToRoom"
    /\ roomCalls[c].pc = "put"
    /\ LET call == roomCalls[c]
           k == MemberKey(call.roomId, call.userId)
           item == MemberItem(call.roomId, call.userId, call.role,
                              call.meta.roomName, call.meta.roomType, call.createdAt)
       IN  IF CondHolds(table, k, MembershipCondition)
           THEN /\ table' = WriteItem(table, k, item)
                /\ roomCalls' = [roomCalls EXCEPT ![c] = RoomFinish(call, "ok", <<>>)]
           ELSE /\ table' = table
                /\ roomCalls' = [roomCalls EXCEPT ![c] =
                       RoomFinish(call, "ConditionalCheckFailed", <<>>)]
    /\ UNCHANGED usedIds
    /\ RoomFrame

(* createMessage(roomId, userId, username, text) *)

\* a test of the membership read that lets every author pass
AnyoneMayPost(membership) == FALSE

\* line 438: the Get of the author's membership item returned no item
NotMember(membership) == membership = NoItem

\* lines 423-443: blank text is refused; the author's membership as read
\* now; the message id and the creation time are drawn
CreateMessageGet(roomId, userId, username, text, messageId, now, conn) ==
    /\ messageId \notin usedIds
    /\ LET trimmedText == Trim(text)
           call == [NewRoomCall("createMessage", roomId, userId) EXCEPT
                       !.username = username, !.text = trimmedText, !.conn = conn]
           membership == GetItem(table, MemberKey(roomId, userId))
           reject == trimmedText = <<>> \/ NotMember(membership)
       IN  /\ roomCalls' = Append(roomCalls,
                  IF trimmedText = <<>> THEN RoomFinish(call, "InvalidMessage", <<>>)
                  ELSE IF NotMember(membership) THEN RoomFinish(call, "NotAMember", <<>>)
                  ELSE [call EXCEPT !.pc = "put", !.messageId = messageId,
                                    !.createdAt = toISOString(now)])
           /\ usedIds' = IF reject THEN usedIds ELSE usedIds \cup {messageId}
    /\ UNCHANGED table
    /\ RoomFrame

\* what createMessage returns and getMessages lists for one message
MessageView(item) ==
    [id |-> item.messageId, roomId |-> item.roomId, userId |-> item.userId,
     text |-> item.text, createdAt |-> item.createdAt,
     user |-> [id |-> item.userId, displayName |-> item.username]]

\* a Put that stores nothing
StoreNothing(t, k, item) == t

\* lines 445-460: the PutCommand of the message item, no condition
StoreMessage(t, k, item) == WriteItem(t, k, item)

\* lines 445-472: the message is put, whatever the table holds by now
CreateMessagePut(c) ==
    /\ roomCalls[c].op = "createMessage"
    /\ roomCalls[c].pc = "put"
    /\ LET call == roomCalls[c]
           item == MessageItem(call.roomId, call.messageId, call.userId,
                               call.username, call.text, call.createdAt)
       IN  /\ table' = StoreMessage(table,
                  MessageKey(call.roomId, call.createdAt, call.messageId), item)
           /\ roomCalls' = [roomCalls EXCEPT ![c] =
                  IF call.conn = 0 THEN RoomFinish(call, "ok", MessageView(item))
                  ELSE [RoomFinish(call, "ok", MessageView(item)) EXCEPT !.pc = "relay"]]
    /\ UNCHANGED usedIds
    /\ RoomFrame

(* getMessages(roomId) *)

\* lines 475-498: one Query, no ExclusiveStartKey and no loop on
\* LastEvaluatedKey: what is returned is the first page, which the store
\* ends after limit items
GetMessages(roomId, limit) ==
    /\ LET keys == PageOf(QueryKeys(table, RoomPK(roomId), <<"MSG#">>, NoItem), limit)
       IN  roomCalls' = Append(roomCalls,
               RoomFinish(NewRoomCall("getMessages", roomId, <<>>), "ok",
                          [i \in DOMAIN keys |-> MessageView(table[keys[i]])]))
    /\ UNCHANGED <<table, usedIds>>
    /\ RoomFrame

(* deleteRoom(roomId, userId) *)

\* the requester's membership item, read without the role test
IsMember(member) == member # NoItem

\* line 317: the requester's membership item is there and its role is ADMIN
IsAdmin(member) == member # NoItem /\ member.role = "ADMIN"

\* lines 304-321: only a member whose role is ADMIN may delete; the others
\* get BadRequestException('You are not an admin of this room')
DeleteRoomGet(roomId, userId) ==
    /\ LET call == NewRoomCall("deleteRoom", roomId, userId)
           member == GetItem(table, MemberKey(roomId, userId))
       IN  roomCalls' = Append(roomCalls,
               IF ~IsAdmin(member)
               THEN RoomFinish(call, "NotAdmin", <<>>)
               ELSE [call EXCEPT !.pc = "query"])
    /\ UNCHANGED <<table, usedIds>>
    /\ RoomFrame

\* the loop's exit test, line 356, after the chunks of a page are deleted
AfterPage(call) ==
    IF call.lastKey = NoItem THEN RoomFinish(call, "ok", <<>>) ELSE [call EXCEPT !.pc = "query"]

\* lines 324-336 and 355: one page of the partition, cut into chunks; the
\* store ends the page after limit items
DeleteRoomQuery(c, limit) ==
    /\ roomCalls[c].op = "deleteRoom"
    /\ roomCalls[c].pc = "query"
    /\ LET call == roomCalls[c]
           keys == QueryKeys(table, RoomPK(call.roomId), <<>>, call.lastKey)
           chunks == chunkBy(PageOf(keys, limit), BatchSize)
           next == [call EXCEPT !.lastKey = LastEvaluatedKey(keys, limit), !.chunks = chunks]
       IN  roomCalls' = [roomCalls EXCEPT ![c] =
               IF chunks = <<>> THEN AfterPage(next) ELSE [next EXCEPT !.pc = "batch"]]
    /\ UNCHANGED <<table, usedIds>>
    /\ RoomFrame

\* lines 338-353: one BatchWriteCommand deletes the next chunk; its answer,
\* UnprocessedItems included, is not read
DeleteRoomBatch(c, unprocessed) ==
    /\ roomCalls[c].op = "deleteRoom"
    /\ roomCalls[c].pc = "batch"
    /\ unprocessed \in UnprocessedItems(Head(roomCalls[c].chunks))
    /\ LET call == roomCalls[c]
           next == [call EXCEPT !.chunks = Tail(@), !.batches = Append(@, Head(call.chunks))]
       IN  /\ table' = BatchDelete(table, Processed(Head(call.chunks), unprocessed))
           /\ roomCalls' = [roomCalls EXCEPT ![c] =
                  IF next.chunks = <<>> THEN AfterPage(next) ELSE next]
    /\ UNCHANGED usedIds
    /\ RoomFrame

\* the instance that runs the call stops (crash, restart) inside the loop
DeleteRoomStop(c) ==
    /\ roomCalls[c].op = "deleteRoom"
    /\ roomCalls[c].pc \in {"query", "batch"}
    /\ roomCalls' = [roomCalls EXCEPT ![c] =
           [RoomFinish(roomCalls[c], "stopped", <<>>) EXCEPT !.pc = "stopped"]]
    /\ UNCHANGED <<table, usedIds>>
    /\ RoomFrame

----------------------------------------------------------------------------
(* ChatGateway (src/chat/chat.gateway.ts), one per server instance *)

Instances == {"A", "B", "C"}

\* null, undefined
Null == NoItem
Undefined == <<>>

\* lines 68-104: the constructor; with a broker configured the SUBSCRIBE
\* is sent and not awaited, and redisEnabled is set at once
NewGateway(hasRedisConfig) == [redisEnabled |-> hasRedisConfig, subscribed |-> FALSE]

\* A handshake token: absent, or a string that jwtService.decode turns into
\* its claims, or into null when it is not a JWT.
NoToken == [present |-> FALSE, claims |-> Null]
GarbageToken == [present |-> TRUE, claims |-> Null]
TokenOf(sub, preferred) ==
    [present |-> TRUE,
     claims |-> [sub |-> sub, preferred_username |-> preferred, username |-> Undefined]]

decode(token) == token.claims

\* line 152: user.preferred_username ?? user.username ?? user.sub
DisplayNameOf(user) ==
    IF user.preferred_username # Undefined THEN user.preferred_username
    ELSE IF user.username # Undefined THEN user.username
    ELSE user.sub

GatewayFrame == UNCHANGED <<table, authCalls, roomCalls, usedIds>>

\* the broker acknowledges the SUBSCRIBE of lines 86-88
Subscribe(i) ==
    /\ gateways[i].redisEnabled
    /\ ~gateways[i].subscribed
    /\ gateways' = [gateways EXCEPT ![i].subscribed = TRUE]
    /\ UNCHANGED <<conns, channel, inbox>>
    /\ GatewayFrame

\* a handshake that lets every client in
NeverRefused(token) == FALSE

\* line 109: without a token the client is disconnected at once
Refused(token) == ~token.present

\* lines 107-117: a client connects to instance i
handleConnection(i, token) ==
    /\ LET k == Cardinality(DOMAIN conns) + 1
           client == [instance |-> i, hasToken |-> token.present,
                      connected |-> ~Refused(token),
                      user |-> IF Refused(token) THEN Null ELSE decode(token),
                      rooms |-> {}]
       IN  /\ conns' = conns @@ (k :> client)
           /\ inbox' = inbox @@ (k :> <<>>)
    /\ UNCHANGED <<gateways, channel>>
    /\ GatewayFrame

\* a join that asks for the user's membership item in the room
MembersMayJoin(user, roomId) ==
    user # Null /\ MemberKey(roomId, user.sub) \in DOMAIN table

\* lines 125-126: the membership is not looked at ('one could check...')
MayJoin(user, roomId) == TRUE

\* lines 120-127: joinRoom
handleJoin(k, roomId) ==
    /\ conns[k].connected
    /\ MayJoin(conns[k].user, roomId)
    /\ roomId \notin conns[k].rooms
    /\ conns' = [conns EXCEPT ![k].rooms = @ \cup {roomId}]
    /\ UNCHANGED <<gateways, channel, inbox>>
    /\ GatewayFrame

\* a socket that stays in its rooms when it closes
LeaveNone(rooms) == rooms

\* socket.io takes a socket that closes out of every room it is in
LeaveAll(rooms) == {}

\* the client goes away
Disconnect(k) ==
    /\ conns[k].connected
    /\ conns' = [conns EXCEPT ![k].connected = FALSE, ![k].rooms = LeaveAll(@)]
    /\ UNCHANGED <<gateways, channel, inbox>>
    /\ GatewayFrame

\* an author taken from the frame the client sent
AuthorFromPayload(user, payload) == payload.userId

\* line 151: the author handed to createMessage is the sub of the claims
\* kept at the handshake
AuthorOf(user, payload) == user.sub

\* lines 130-154: sendMessage, up to the membership read of createMessage.
\* The payload is what the client sent: roomId and text, and whatever else
\* it chose to add (here a userId).
handleMessage(k, payload, messageId, now) ==
    /\ conns[k].connected
    /\ conns[k].user # Null
    /\ CreateMessageGet(payload.roomId, AuthorOf(conns[k].user, payload),
                        DisplayNameOf(conns[k].user), payload.text, messageId, now, k)

\* the connections server.to(roomId) reaches on instance i: the sockets of
\* the instance that are in the room
RoomSockets(i, roomId) ==
    {k \in DOMAIN conns : conns[k].instance = i /\ roomId \in conns[k].rooms}

\* emitted to every open socket of instance i, whatever rooms it joined
EmitToAll(box, i, frame) ==
    [k \in DOMAIN box |->
        IF conns[k].instance = i /\ conns[k].connected THEN Append(box[k], frame) ELSE box[k]]

\* (mutant) emitted to the room's sockets of every instance
EmitEverywhere(box, i, frame) ==
    [k \in DOMAIN box |->
        IF \E j \in Instances : k \in RoomSockets(j, frame.roomId)
        THEN Append(box[k], frame) ELSE box[k]]

\* server.to(roomId).emit('newMessage', frame) on instance i
Emit(box, i, frame) ==
    [k \in DOMAIN box |->
        IF k \in RoomSockets(i, frame.roomId) THEN Append(box[k], frame) ELSE box[k]]

\* (mutant) emitted locally whether or not the frame is published as well
LocalEmitAlways(box, i, frame) == Emit(box, i, frame)

\* lines 166-172: the fallback branch emits locally, the other does not
LocalEmit(box, i, frame) == IF gateways[i].redisEnabled THEN box ELSE Emit(box, i, frame)

\* PUBLISH: the broker hands the frame to every subscription it holds
Publish(ch, frame) ==
    [j \in DOMAIN ch |-> IF gateways[j].subscribed THEN Append(ch[j], frame) ELSE ch[j]]

\* (mutant) the frame handed to the publishing instance's subscription only
PublishToSelf(ch, i, frame) ==
    [j \in DOMAIN ch |->
        IF gateways[j].subscribed /\ j = i THEN Append(ch[j], frame) ELSE ch[j]]

\* lines 157-165: only an instance with redisEnabled publishes
RelayPublish(ch, i, frame) == IF gateways[i].redisEnabled THEN Publish(ch, frame) ELSE ch

\* lines 161-164, 169-170: {...savedMessage, preferred_username}
FrameOf(savedMessage, user) ==
    [id |-> savedMessage.id, roomId |-> savedMessage.roomId,
     userId |-> savedMessage.userId, text |-> savedMessage.text,
     createdAt |-> savedMessage.createdAt, user |-> savedMessage.user,
     preferred_username |-> user.preferred_username]

\* lines 157-172: the saved message is published, or emitted locally.
\* audience and reached keep, for the properties, who was joined to the
\* room and which subscriptions the broker held at this moment.
\* available: the broker takes the PUBLISH. When it does not, the promise
\* of pub.publish is rejected (the connection is closed, or the retries of
\* the request are used up); nothing catches it, so handleMessage ends
\* with that error and nothing is emitted.
handleMessageRelay(c, available) ==
    /\ roomCalls[c].pc = "relay"
    /\ LET call == roomCalls[c]
           i == conns[call.conn].instance
           frame == FrameOf(call.ret, conns[call.conn].user)
       IN  /\ available \/ gateways[i].redisEnabled
           /\ IF available
              THEN /\ channel' = RelayPublish(channel, i, frame)
                   /\ inbox' = LocalEmit(inbox, i, frame)
                   /\ roomCalls' = [roomCalls EXCEPT ![c] =
                          [call EXCEPT !.pc = "done",
                              !.audience = UNION {RoomSockets(j, call.roomId) : j \in Instances},
                              !.reached = {j \in Instances : gateways[j].subscribed}]]
              ELSE /\ UNCHANGED <<channel, inbox>>
                   /\ roomCalls' = [roomCalls EXCEPT ![c] =
                          [call EXCEPT !.pc = "done", !.result = "PublishFailed"]]
    /\ UNCHANGED <<table, authCalls, usedIds, gateways, conns>>

\* lines 91-97: instance i receives the next frame of its subscription
Receive(i) ==
    /\ channel[i] # <<>>
    /\ inbox' = Emit(inbox, i, Head(channel[i]))
    /\ channel' = [channel EXCEPT ![i] = Tail(@)]
    /\ UNCHANGED <<gateways, conns>>
    /\ GatewayFrame

----------------------------------------------------------------------------
(* The username registry under concurrent calls *)

U1 == <<"u", "1">>
U2 == <<"u", "2">>
U3 == <<"u", "3">>

Ann == <<"a", "n", "n">>
Bob == <<"b", "o", "b">>
Dan == <<"d", "a", "n">>
Ned == <<"n", "e", "d">>

\* ids and claims as the identity provider supplies them at sign-in
InfoU3 == [sub |-> U3, preferred_username |-> <<"A", "n", "n">>, email |-> <<>>]

\* U1 and U2 have signed in (as ann and dan); U3 has not yet
RegisteredTable ==
    LET t1 == WriteItem(EmptyTable, UsernameKey(Ann), UsernameItem(U1, Ann))
        t2 == WriteItem(t1, ProfileKey(U1), ProfileItem(U1, Ann))
        t3 == WriteItem(t2, UsernameKey(Dan), UsernameItem(U2, Dan))
    IN  WriteItem(t3, ProfileKey(U2), ProfileItem(U2, Dan))

NoCalls == <<>>
NoConns == [c \in {} |-> NoItem]

InitUsers ==
    /\ table = RegisteredTable
    /\ authCalls = NoCalls
    /\ roomCalls = NoCalls
    /\ usedIds = {}
    /\ gateways = NoConns
    /\ conns = NoConns
    /\ channel = NoConns
    /\ inbox = NoConns

\* a sign-in of U3 whose claims carry no preferred_username: the base is
\* the local part of the e-mail address
InfoU3Bob ==
    [sub |-> U3, preferred_username |-> <<>>, email |-> <<"B", "o", "b", "@", "x">>]

\* what clients send as a new username
RenameRaws == {<<"B", "o", "b">>, <<" ", "a", "n", "n">>, <<"a", "-">>}

NextUsers ==
    \/ \E u \in {U1, U2}, raw \in RenameRaws :
          Len(authCalls) < MaxAuthCalls /\ UpdateUsernameGet(u, raw)
    \/ \E u \in {U1, U2} :
          Len(authCalls) < MaxAuthCalls /\ UpdateProfileGet(u, TRUE, <<"d", "a", "n">>)
    \/ \E u \in {U1, U2} :
          Len(authCalls) < MaxAuthCalls /\ UpdateProfileGet(u, FALSE, <<>>)
    \/ Len(authCalls) < MaxAuthCalls /\ EnsureUserProfileGet(InfoU3)
    \/ \E c \in DOMAIN authCalls : UpdateUsernameTransact(c)
    \/ \E c \in DOMAIN authCalls : UpdateProfilePut(c)
    \/ \E c \in DOMAIN authCalls : UpdateProfileTransact(c)
    \/ \E c \in DOMAIN authCalls : EnsureUserProfileReserve(c)
    \/ \E c \in DOMAIN authCalls : EnsureUserProfilePut(c)

SpecUsers == InitUsers /\ [][NextUsers]_vars

\* Renames and sign-ins only: U1 renames (to bob, to ned), U2 renames to
\* ann, U3 signs in with the provider name Ann.
NextRenames ==
    \/ \E raw \in {<<"B", "o", "b">>, <<"N", "e", "d">>} :
          Len(authCalls) < MaxRenameCalls /\ UpdateUsernameGet(U1, raw)
    \/ Len(authCalls) < MaxRenameCalls /\ UpdateUsernameGet(U2, <<" ", "a", "n", "n">>)
    \/ Len(authCalls) < MaxRenameCalls /\ EnsureUserProfileGet(InfoU3)
    \/ \E c \in DOMAIN authCalls : UpdateUsernameTransact(c)
    \/ \E c \in DOMAIN authCalls : EnsureUserProfileReserve(c)
    \/ \E c \in DOMAIN authCalls : EnsureUserProfilePut(c)

SpecRenames == InitUsers /\ [][NextRenames]_vars

\* A race for one free username: every call targets bob, in some spelling.
RaceRaws == {<<"B", "o", "b">>, <<"b", "O", "B", " ">>}

NextRace ==
    \/ \E u \in {U1, U2}, raw \in RaceRaws :
          Len(authCalls) < MaxRaceCalls /\ UpdateUsernameGet(u, raw)
    \/ \E u \in {U1, U2} :
          Len(authCalls) < MaxRaceCalls /\ UpdateProfileGet(u, TRUE, <<"B", "o", "b">>)
    \/ Len(authCalls) < MaxRaceCalls /\ EnsureUserProfileGet(InfoU3Bob)
    \/ \E c \in DOMAIN authCalls : UpdateUsernameTransact(c)
    \/ \E c \in DOMAIN authCalls : UpdateProfileTransact(c)
    \/ \E c \in DOMAIN authCalls : EnsureUserProfileReserve(c)
    \/ \E c \in DOMAIN authCalls : EnsureUserProfilePut(c)

SpecRace == InitUsers /\ [][NextRace]_vars

----------------------------------------------------------------------------
(* Properties of the username registry *)

AllAuthDone == \A c \in DOMAIN authCalls : authCalls[c].pc = "done"

ProfileKeys == {k \in DOMAIN table : k.SK = <<"PROFILE">>}
ReservationKeys == {k \in DOMAIN table : k.SK = <<"USER">>}

IsRename(call) ==
    \/ call.op = "updateUsernameForUser"
    \/ call.op = "updateProfileForUser" /\ call.hasUsername


\* the attempts of the race that created the reservation item of bob
Winners == {c \in DOMAIN authCalls : authCalls[c].reserved = Bob}

C2_UsernamesUnique ==
    \A p, q \in ProfileKeys : p # q => table[p].username # table[q].username

\* C9: a rename whose transaction finds the new username reserved (or the
\* profile gone) throws UsernameTaken and leaves every item as it was: no
\* new reservation, the profile unchanged, the old reservation still there;
\* and a rename throws UsernameTaken in no other case.
C9_CancelledRenameHasNoEffect ==
    [][\A c \in DOMAIN authCalls :
          (authCalls[c].pc = "txn" /\ authCalls'[c].pc = "done") =>
              LET call == authCalls[c]
                  taken == UsernameKey(call.nextUsername) \in DOMAIN table
                  vanished == ProfileKey(call.userId) \notin DOMAIN table
              IN  IF taken \/ vanished
                  THEN authCalls'[c].result = "UsernameTaken" /\ table' = table
                  ELSE authCalls'[c].result = "ok"]_vars

\* C9 witness: a rename was refused, and its user still has the old
\* username, in the profile and as a reservation
C9_RenameRefused ==
    \E c \in DOMAIN authCalls :
        LET call == authCalls[c]
        IN  /\ call.result = "UsernameTaken"
            /\ call.writes = 1
            /\ call.currentUsername # <<>>
            /\ GetItem(table, ProfileKey(call.userId)) =
                   ProfileItem(call.userId, call.currentUsername)
            /\ GetItem(table, UsernameKey(call.currentUsername)) =
                   UsernameItem(call.userId, call.currentUsername)

\* C10 as stated: once no rename is in flight, the reservation items that
\* point to a user are exactly one, that of the username in the user's
\* profile.
C10_OneReservationPerUser ==
    (\A c \in DOMAIN authCalls : IsRename(authCalls[c]) => authCalls[c].pc = "done") =>
        \A p \in ProfileKeys :
            {k \in ReservationKeys : table[k].userId = table[p].userId}
                = {UsernameKey(table[p].username)}

----------------------------------------------------------------------------
(* The room directory under concurrent calls *)

R1 == <<"r", "1">>
R2 == <<"r", "2">>
RoomIds == {R1, R2}

M1 == <<"e", "1">>
M2 == <<"e", "2">>
M3 == <<"e", "3">>

RoomX == <<"x">>

\* the table after createRoom has made the room
WithRoom(t, roomId, roomName, roomType, adminId, memberIds, at) ==
    ApplyOps(t, CreateRoomItems(
        [NewRoomCall("createRoom", roomId, adminId) EXCEPT
            !.name = roomName, !.roomType = roomType,
            !.resolved = memberIds, !.createdAt = toISOString(at)]))

\* the table after createMessage has put the message
WithMessage(t, roomId, messageId, userId, username, text, at) ==
    WriteItem(t, MessageKey(roomId, toISOString(at), messageId),
              MessageItem(roomId, messageId, userId, username, text, toISOString(at)))

\* the items of a room's partition whose sort key starts with the prefix
RoomItems(roomId, prefix) ==
    {k \in DOMAIN table : k.PK = RoomPK(roomId) /\ IsPrefix(<<prefix>>, k.SK)}

InitDirectory(t) ==
    /\ table = t
    /\ authCalls = NoCalls
    /\ roomCalls = NoCalls
    /\ usedIds = {}
    /\ gateways = NoConns
    /\ conns = NoConns
    /\ channel = NoConns
    /\ inbox = NoConns

(* Rooms are created and members added *)

MaxRoomCalls == 3

\* participantUsernames as clients send them
ParticipantInputs ==
    {<<>>, <<Dan>>, <<<<"D", "a", "n", " ">>, Dan>>, <<Ann>>, <<Dan, Ann>>, <<Bob>>, <<Dan, <<" ">>>>}

InitRooms == InitDirectory(RegisteredTable)

NextRooms ==
    \/ \E id \in RoomIds, roomType \in {"DIRECT", "GROUP"}, name \in {<<>>, RoomX},
          names \in ParticipantInputs :
          Len(roomCalls) < MaxRoomCalls /\ CreateRoomCall(id, 1, name, U1, roomType, names)
    \/ \E c \in DOMAIN roomCalls : CreateRoomResolve(c)
    \/ \E c \in DOMAIN roomCalls : CreateRoomTransact(c)
    \/ \E id \in RoomIds, u \in {U2, U3}, role \in {"MEMBER", "ADMIN"} :
          Len(roomCalls) < MaxRoomCalls /\ AddUserToRoomGet(id, u, role, 2)
    \/ \E c \in DOMAIN roomCalls : AddUserToRoomPut(c)

SpecRooms == InitRooms /\ [][NextRooms]_vars

\* C3 as stated: a DIRECT room has exactly two membership items when
\* createRoom has made it and in every later state; addUserToRoom never adds
\* a third.
C3_DirectRoomHasTwoMembers ==
    \A id \in RoomIds :
        (GetItem(table, RoomKey(id)) # NoItem /\ table[RoomKey(id)].roomType = "DIRECT")
            => Cardinality(RoomItems(id, "MEMBER#")) = 2

(* A room is deleted, by calls that may stop part-way *)

MaxDeleteCalls == 3

\* the page sizes the store answers a Query with
PageLimits == {2, 5}

\* room r1 of U1 (admin) and U2, holding two messages
DeleteTable ==
    LET t1 == WithRoom(RegisteredTable, R1, RoomX, "GROUP", U1, <<U2>>, 1)
        t2 == WithMessage(t1, R1, M1, U1, Ann, <<"a">>, 2)
    IN  WithMessage(t2, R1, M2, U2, Dan, <<"b">>, 3)

InitDelete == InitDirectory(DeleteTable)

NextDelete ==
    \/ \E u \in {U1, U2} : Len(roomCalls) < MaxDeleteCalls /\ DeleteRoomGet(R1, u)
    \/ \E c \in DOMAIN roomCalls, limit \in PageLimits : DeleteRoomQuery(c, limit)
    \/ \E c \in DOMAIN roomCalls, unprocessed \in {{}} \cup {{k} : k \in DOMAIN table} :
          DeleteRoomBatch(c, unprocessed)
    \/ \E c \in DOMAIN roomCalls : DeleteRoomStop(c)

SpecDelete == InitDelete /\ [][NextDelete]_vars

\* C4 as stated: a deleteRoom of the room's admin that has returned,
\* whether the room was already deleted or an earlier attempt stopped after
\* some batches, has succeeded, and no membership or message item of the
\* room is left.
C4_DeleteRoomRetrySucceeds ==
    \A c \in DOMAIN roomCalls :
        (roomCalls[c].op = "deleteRoom" /\ roomCalls[c].userId = U1
            /\ roomCalls[c].pc = "done")
        => /\ roomCalls[c].result = "ok"
           /\ RoomItems(R1, "MEMBER#") = {}
           /\ RoomItems(R1, "MSG#") = {}

(* Messages are posted and listed *)

MaxMessageCalls == 4

\* clock readings of the instances
Times == {9, 10}

MessageIds == {M1, M2, M3}

\* randomUUID(): an id not returned before (the least of the pool)
FreshId(pool) ==
    CHOOSE x \in pool \ usedIds : \A y \in pool \ (usedIds \cup {x}) : StrLess(x, y)

MessageTable == WithRoom(RegisteredTable, R1, RoomX, "GROUP", U1, <<U2>>, 1)

InitMessages == InitDirectory(MessageTable)

NextMessages ==
    \/ \E now \in Times :
          /\ Len(roomCalls) < MaxMessageCalls
          /\ MessageIds \ usedIds # {}
          /\ CreateMessageGet(R1, U1, Ann, <<"a">>, FreshId(MessageIds), now, 0)
    \/ \E u \in {U1, U3}, text \in {<<" ">>, <<" ", "b">>} :
          /\ Len(roomCalls) < MaxMessageCalls
          /\ MessageIds \ usedIds # {}
          /\ CreateMessageGet(R1, u, Dan, text, FreshId(MessageIds), 9, 0)
    \/ \E c \in DOMAIN roomCalls : CreateMessagePut(c)
    \/ \E limit \in PageLimits : Len(roomCalls) < MaxMessageCalls /\ GetMessages(R1, limit)

SpecMessages == InitMessages /\ [][NextMessages]_vars

\* C8: whatever getMessages returns is in non-decreasing createdAt order,
\* in whatever order the concurrent createMessage calls wrote their items.
C8_ListedByCreationTime ==
    \A c \in DOMAIN roomCalls :
        (roomCalls[c].op = "getMessages" /\ roomCalls[c].pc = "done") =>
            \A i \in 1..(Len(roomCalls[c].ret) - 1) :
                ParseInstant(roomCalls[c].ret[i].createdAt)
                    <= ParseInstant(roomCalls[c].ret[i + 1].createdAt)

\* C8 witness: a listing held one message, and a later listing holds before
\* it a message created earlier: that one was written after it
C8_LateWriteListedFirst ==
    \E g, h \in DOMAIN roomCalls :
        /\ g < h
        /\ roomCalls[g].op = "getMessages" /\ roomCalls[h].op = "getMessages"
        /\ Len(roomCalls[g].ret) = 1 /\ Len(roomCalls[h].ret) = 2
        /\ roomCalls[h].ret[2] = roomCalls[g].ret[1]
        /\ ParseInstant(roomCalls[h].ret[1].createdAt)
               < ParseInstant(roomCalls[h].ret[2].createdAt)

----------------------------------------------------------------------------
(* The gateways of three instances and the relay between them *)

MaxConns == 2
MaxChatCalls == 1

Tokens == {NoToken, GarbageToken, TokenOf(U1, Ann)}

\* every instance with a broker configured, none, or all but A
GatewayConfigs ==
    {[i \in Instances |-> NewGateway(e)] : e \in BOOLEAN}
        \cup {[i \in Instances |-> NewGateway(i # "A")]}

\* room r1 of U1 and U2, room r2 of U1 alone
ChatTable ==
    WithRoom(WithRoom(RegisteredTable, R1, RoomX, "GROUP", U1, <<U2>>, 1),
             R2, RoomX, "GROUP", U1, <<>>, 1)

InitChat ==
    /\ table = ChatTable
    /\ authCalls = NoCalls
    /\ roomCalls = NoCalls
    /\ usedIds = {}
    /\ gateways \in GatewayConfigs
    /\ conns = NoCalls
    /\ channel = [i \in Instances |-> <<>>]
    /\ inbox = NoCalls

NextChat ==
    \/ \E i \in Instances : Subscribe(i)
    \/ \E i \in Instances, token \in Tokens :
          Cardinality(DOMAIN conns) < MaxConns /\ handleConnection(i, token)
    \/ \E k \in DOMAIN conns, id \in RoomIds : handleJoin(k, id)
    \/ \E k \in DOMAIN conns : Disconnect(k)
    \/ \E k \in DOMAIN conns, id \in RoomIds :
          /\ Len(roomCalls) < MaxChatCalls
          /\ MessageIds \ usedIds # {}
          /\ handleMessage(k, [roomId |-> id, text |-> <<"a">>, userId |-> U2],
                           FreshId(MessageIds), 9)
    \/ \E c \in DOMAIN roomCalls : CreateMessagePut(c)
    \/ \E c \in DOMAIN roomCalls : handleMessageRelay(c, TRUE)
    \/ \E i \in Instances : Receive(i)

SpecChat == InitChat /\ [][NextChat]_vars

\* the same gateways, every one with a broker configured, one room, and
\* the steps that the store, the broker and the event loop do not withhold
\* taken sooner or later
InitChatFair == InitChat /\ \A i \in Instances : gateways[i].redisEnabled

NextChatFair ==
    \/ \E i \in Instances : Subscribe(i)
    \/ \E i \in Instances :
          Cardinality(DOMAIN conns) < MaxConns /\ handleConnection(i, TokenOf(U1, Ann))
    \/ \E k \in DOMAIN conns : handleJoin(k, R1)
    \/ \E k \in DOMAIN conns : Disconnect(k)
    \/ \E k \in DOMAIN conns :
          /\ Len(roomCalls) < MaxChatCalls
          /\ MessageIds \ usedIds # {}
          /\ handleMessage(k, [roomId |-> R1, text |-> <<"a">>, userId |-> U2],
                           FreshId(MessageIds), 9)
    \/ \E c \in DOMAIN roomCalls : CreateMessagePut(c)
    \/ \E c \in DOMAIN roomCalls : handleMessageRelay(c, TRUE)
    \/ \E i \in Instances : Receive(i)

SpecChatFair ==
    /\ InitChatFair
    /\ [][NextChatFair]_vars
    /\ \A i \in Instances : WF_vars(Subscribe(i))
    /\ \A i \in Instances : WF_vars(Receive(i))
    /\ WF_vars(\E c \in DOMAIN roomCalls : CreateMessagePut(c))
    /\ WF_vars(\E c \in DOMAIN roomCalls : handleMessageRelay(c, TRUE))

\* call c is a sendMessage whose message was saved and handed to the relay
Handled(c) ==
    /\ c \in DOMAIN roomCalls
    /\ roomCalls[c].conn # 0
    /\ roomCalls[c].pc = "done"
    /\ roomCalls[c].result = "ok"

\* the instance that accepted the message of call c
OriginOf(c) == conns[roomCalls[c].conn].instance

\* how many newMessage events connection k got for the message of call c
Copies(k, c) ==
    Cardinality({n \in DOMAIN inbox[k] : inbox[k][n].id = roomCalls[c].messageId})

\* connection k is open; connection k has got the message of call c
Live(k) == k \in DOMAIN conns /\ conns[k].connected
Got(k, c) == k \in DOMAIN inbox /\ c \in DOMAIN roomCalls /\ Copies(k, c) >= 1

Drained == \A i \in Instances : channel[i] = <<>>

C6_DegradedModeIsLocal ==
    [][\A k \in DOMAIN inbox :
          inbox'[k] # inbox[k] =>
              LET frame == inbox'[k][Len(inbox'[k])]
              IN  \A c \in DOMAIN roomCalls :
                      (roomCalls[c].messageId = frame.id
                          /\ ~gateways[OriginOf(c)].redisEnabled)
                      => /\ conns[k].instance = OriginOf(c)
                         /\ conns[k].connected
                         /\ frame.roomId \in conns[k].rooms]_vars

\* C6 witness: an instance without a broker has emitted a message to its
\* own connection, and a connection of another instance, joined to the same
\* room all along, has got nothing
C6_OtherInstanceNotReached ==
    \E c \in DOMAIN roomCalls, k \in DOMAIN conns :
        /\ Handled(c) /\ ~gateways[OriginOf(c)].redisEnabled
        /\ Copies(roomCalls[c].conn, c) = 1
        /\ k \in roomCalls[c].audience
        /\ conns[k].instance # OriginOf(c)
        /\ conns[k].connected
        /\ inbox[k] = <<>>

\* C7 as stated: once a saved message has gone through the relay, every
\* live connection that was joined to its room has got it exactly once.
C7_ExactlyOncePerSubscriber ==
    \A c \in DOMAIN roomCalls :
        (Handled(c) /\ Drained) =>
            \A k \in roomCalls[c].audience : conns[k].connected => Copies(k, c) = 1

\* the instances the message of call c is forwarded on: the accepting one
\* in degraded mode, the ones whose subscription the broker held otherwise
ForwardedOn(c) ==
    IF gateways[OriginOf(c)].redisEnabled THEN roomCalls[c].reached ELSE {OriginOf(c)}

\* C7 amended: no connection ever gets the same message twice, with the
\* relay and in degraded mode; and every live connection that was joined
\* to the room on an instance the message is forwarded on has got it exactly
\* once when the channel is drained.
C7_AtMostOncePerConnection ==
    /\ \A k \in DOMAIN inbox, c \in DOMAIN roomCalls : Copies(k, c) <= 1
    /\ \A c \in DOMAIN roomCalls :
          (Handled(c) /\ Drained) =>
              \A k \in roomCalls[c].audience :
                  (conns[k].connected /\ conns[k].instance \in ForwardedOn(c))
                      => Copies(k, c) = 1

\* C7 witness: with the relay, the sender's own connection, joined to the
\* room, has got its message once, through the subscription of its instance
C7_SenderGotOneCopy ==
    \E c \in DOMAIN roomCalls :
        /\ Handled(c) /\ Drained
        /\ OriginOf(c) \in roomCalls[c].reached
        /\ roomCalls[c].conn \in roomCalls[c].audience
        /\ Copies(roomCalls[c].conn, c) = 1

----------------------------------------------------------------------------
(* Username allocation at sign-in, with candidates already taken *)

MaxAllocCalls == 2

U4 == <<"u", "4">>
U9 == <<"u", "9">>

InfoU4Bob == [sub |-> U4, preferred_username |-> <<"b", "o", "b">>, email |-> <<>>]

\* the table in which U9-like users hold the first n candidates of base
RECURSIVE TakenTable(_, _)
TakenTable(base, n) ==
    IF n = 0 THEN RegisteredTable
    ELSE WriteItem(TakenTable(base, n - 1), UsernameKey(Candidate(base, n - 1)),
                   UsernameItem(U9, Candidate(base, n - 1)))

InitAllocate ==
    /\ table \in {TakenTable(Bob, n) : n \in 0..MaxAttempts}
    /\ authCalls = NoCalls
    /\ roomCalls = NoCalls
    /\ usedIds = {}
    /\ gateways = NoConns
    /\ conns = NoConns
    /\ channel = NoConns
    /\ inbox = NoConns

NextAllocate ==
    \/ \E info \in {InfoU3Bob, InfoU4Bob} :
          Len(authCalls) < MaxAllocCalls /\ EnsureUserProfileGet(info)
    \/ \E c \in DOMAIN authCalls : EnsureUserProfileReserve(c)
    \/ \E c \in DOMAIN authCalls : EnsureUserProfilePut(c)

SpecAllocate == InitAllocate /\ [][NextAllocate]_vars

\* the n-th name the allocation is to try: the base, then base_2, base_3, ...
NthName(base, n) == IF n = 1 THEN base ELSE base \o <<"_">> \o Decimal(n)

NamesTaken(base, n) == \A j \in 1..n : UsernameKey(NthName(base, j)) \in DOMAIN table

----------------------------------------------------------------------------
(* The usernames that sign-ins and renames store *)

MaxNameCalls == 2

\* claims of the identity provider: a two-character preferred_username
InfoU4Short == [sub |-> U4, preferred_username |-> <<"A", "-">>, email |-> <<>>]

NextNames ==
    \/ \E info \in {InfoU3, InfoU4Short} :
          Len(authCalls) < MaxNameCalls /\ EnsureUserProfileGet(info)
    \/ \E u \in {U1, U2}, raw \in RenameRaws :
          Len(authCalls) < MaxNameCalls /\ UpdateUsernameGet(u, raw)
    \/ \E u \in {U1, U2}, raw \in RenameRaws :
          Len(authCalls) < MaxNameCalls /\ UpdateProfileGet(u, TRUE, raw)
    \/ \E c \in DOMAIN authCalls : UpdateUsernameTransact(c)
    \/ \E c \in DOMAIN authCalls : UpdateProfileTransact(c)
    \/ \E c \in DOMAIN authCalls : EnsureUserProfileReserve(c)
    \/ \E c \in DOMAIN authCalls : EnsureUserProfilePut(c)

SpecNames == InitUsers /\ [][NextNames]_vars

\* C12 as stated: every username stored in a reservation item or in a
\* profile item, by a sign-in or by a rename, matches ^[a-z0-9_]{3,30}$.
C12_StoredUsernamesMatchPattern ==
    \A k \in ReservationKeys \cup ProfileKeys : MatchesUsernamePattern(table[k].username)

----------------------------------------------------------------------------
(* Rooms are composed from the handles the client names *)

MaxComposeCalls == 2

\* U1 (ann), U2 (dan) and U3 (ned) have signed in
ThreeUsersTable ==
    WriteItem(WriteItem(RegisteredTable, UsernameKey(Ned), UsernameItem(U3, Ned)),
              ProfileKey(U3), ProfileItem(U3, Ned))

ComposeInputs ==
    {<<>>, <<Dan>>, <<<<"D", "a", "n", " ">>, Dan>>, <<Ann>>, <<Ann, Dan>>,
     <<Dan, Ned>>, <<Bob>>, <<Dan, Bob>>, <<<<" ">>>>}

InitCompose == InitDirectory(ThreeUsersTable)

NextCompose ==
    \/ \E id \in RoomIds, roomType \in {"DIRECT", "GROUP"}, name \in {<<>>, RoomX},
          names \in ComposeInputs :
          Len(roomCalls) < MaxComposeCalls /\ CreateRoomCall(id, 1, name, U1, roomType, names)
    \/ \E c \in DOMAIN roomCalls : CreateRoomResolve(c)
    \/ \E c \in DOMAIN roomCalls : CreateRoomTransact(c)

SpecCompose == InitCompose /\ [][NextCompose]_vars

\* every item of a room's partition
PartitionOf(roomId) == {k \in DOMAIN table : k.PK = RoomPK(roomId)}

\* the handles of a createRoom call that name a user, and the users other
\* than the creator that its handles name
KnownHandles(call) ==
    {i \in DOMAIN call.usernames : UsernameKey(call.usernames[i]) \in DOMAIN table}
ParticipantsOf(call) ==
    {table[UsernameKey(call.usernames[i])].userId : i \in KnownHandles(call)} \ {call.userId}

\* C13: the participants of a room are the users its handles name, once
\* each and without the creator; a DIRECT room whose handles all resolve is
\* refused with InvalidRoomComposition exactly when they are not one user,
\* and then no item of the room is written.
C13_DirectNeedsOneParticipant ==
    \A c \in DOMAIN roomCalls :
        LET call == roomCalls[c]
            resolvable == KnownHandles(call) = DOMAIN call.usernames
            one == Cardinality(ParticipantsOf(call)) = 1
        IN  (call.op = "createRoom" /\ call.pc = "done") =>
            /\ (call.result = "ok") =>
                  /\ resolvable
                  /\ call.roomType = "DIRECT" => one
                  /\ {k.SK : k \in PartitionOf(call.roomId)} =
                        {<<"META">>} \cup {<<"MEMBER#">> \o u :
                                             u \in ParticipantsOf(call) \cup {call.userId}}
            /\ (call.result = "InvalidRoomComposition") =>
                  /\ call.roomType = "DIRECT" /\ resolvable /\ ~one
                  /\ PartitionOf(call.roomId) = {}
            /\ (call.roomType = "DIRECT" /\ resolvable /\ ~one) =>
                  call.result = "InvalidRoomComposition"

\* C13 witness: direct rooms were refused, one for naming two other users,
\* one for naming the creator alone
C13_RefusedCompositions ==
    \E c, d \in DOMAIN roomCalls :
        /\ roomCalls[c].result = "InvalidRoomComposition"
        /\ roomCalls[c].usernames = <<Dan, Ned>>
        /\ roomCalls[d].result = "InvalidRoomComposition"
        /\ roomCalls[d].usernames = <<Ann>>

\* the same calls on a table that already holds an item under an id that
\* randomUUID() is yet to return: a membership of U2 in room r2, written by
\* another process
StaleMemberTable ==
    WriteItem(ThreeUsersTable, MemberKey(R2, U2),
              MemberItem(R2, U2, "MEMBER", RoomX, "GROUP", toISOString(0)))

InitAtomic == InitDirectory(StaleMemberTable)

SpecAtomic == InitAtomic /\ [][NextCompose]_vars

\* the keys createRoom is to write for a call
RoomKeysOf(call) ==
    {RoomKey(call.roomId)}
        \cup {MemberKey(call.roomId, u) : u \in ParticipantsOf(call) \cup {call.userId}}

\* C14: a step of createRoom either writes the metadata item and the
\* membership items of the creator and of every participant, all of them
\* new, in one step, and the call succeeds; or it writes nothing (a handle
\* that names no user, a refused composition, a cancelled transaction).
C14_CreateRoomAllOrNothing ==
    [][\A c \in DOMAIN roomCalls' :
          (roomCalls'[c].op = "createRoom"
              /\ (c \in DOMAIN roomCalls => roomCalls'[c] # roomCalls[c])) =>
              IF roomCalls'[c].result = "ok"
              THEN /\ DOMAIN table' \ DOMAIN table = RoomKeysOf(roomCalls[c])
                   /\ RoomKeysOf(roomCalls[c]) \cap DOMAIN table = {}
                   /\ \A k \in DOMAIN table : table'[k] = table[k]
                   /\ table'[RoomKey(roomCalls[c].roomId)].entity = "ROOM"
              ELSE table' = table]_vars

\* C14 witness: one creation was cancelled by an item already there and
\* left the room without metadata, another wrote its room
C14_CancelledAndCreated ==
    \E c, d \in DOMAIN roomCalls :
        /\ roomCalls[c].result = "TransactionCanceled"
        /\ RoomKey(roomCalls[c].roomId) \notin DOMAIN table
        /\ roomCalls[d].result = "ok"
        /\ RoomKey(roomCalls[d].roomId) \in DOMAIN table

(* Rooms of several sizes are deleted, one call after the other *)

MaxPurgeCalls == 2
MaxPurgeMessages == 3

\* the page sizes the store answers the Query with
PurgeLimits == {1, 2, 5}

\* a table whose room has n messages more
RECURSIVE WithMessages(_, _, _)
WithMessages(t, roomId, n) ==
    IF n = 0 THEN t
    ELSE WithMessage(WithMessages(t, roomId, n - 1), roomId,
                     <<"e">> \o Decimal(n), U1, Ann, <<"a">>, n + 1)

\* room r1 of U1 (admin) and U2 (member) with n messages; U3 is no member
PurgeTable(n) ==
    WithMessages(WithRoom(ThreeUsersTable, R1, RoomX, "GROUP", U1, <<U2>>, 1), R1, n)

InitPurge == \E n \in 0..MaxPurgeMessages : InitDirectory(PurgeTable(n))

\* no call of a RoomsService method is under way
Quiet == \A c \in DOMAIN roomCalls : roomCalls[c].pc = "done"

NextPurge ==
    \/ \E u \in {U1, U2, U3} :
          Len(roomCalls) < MaxPurgeCalls /\ Quiet /\ DeleteRoomGet(R1, u)
    \/ \E c \in DOMAIN roomCalls, limit \in PurgeLimits : DeleteRoomQuery(c, limit)
    \/ \E c \in DOMAIN roomCalls, unprocessed \in {{}} \cup {{k} : k \in DOMAIN table} :
          DeleteRoomBatch(c, unprocessed)

SpecPurge == InitPurge /\ [][NextPurge]_vars

\* C15: a deleteRoom whose requester has no membership item in the room, or
\* one whose role is not ADMIN, fails with the refusal 'You are not an admin
\* of this room' in the step that reads the membership, changes no item, and
\* does nothing after it: it sends no batch.
C15_NonAdminDeletesNothing ==
    [][/\ \A c \in DOMAIN roomCalls' \ DOMAIN roomCalls :
            LET call == roomCalls'[c]
                member == GetItem(table, MemberKey(call.roomId, call.userId))
            IN  (call.op = "deleteRoom" /\ (member = NoItem \/ member.role # "ADMIN"))
                    => /\ call.result = "NotAdmin"
                       /\ call.pc = "done"
                       /\ table' = table
       /\ \A c \in DOMAIN roomCalls :
            roomCalls[c].result = "NotAdmin"
                => roomCalls'[c] = roomCalls[c] /\ roomCalls[c].batches = <<>>]_vars

\* C15 witness: the member U2 and the stranger U3 were both refused, and the
\* room is whole
C15_BothRefused ==
    \E c, d \in DOMAIN roomCalls :
        /\ roomCalls[c].userId = U2 /\ roomCalls[c].result = "NotAdmin"
        /\ roomCalls[d].userId = U3 /\ roomCalls[d].result = "NotAdmin"
        /\ GetItem(table, RoomKey(R1)) # NoItem
        /\ GetItem(table, MemberKey(R1, U2)) # NoItem
        /\ GetItem(table, MemberKey(R1, U3)) = NoItem

\* C16 as stated: when a deleteRoom that ran alone has returned success, no
\* item of the room's partition is left.
C16_SuccessLeavesNoItem ==
    \A c \in DOMAIN roomCalls :
        (c = Len(roomCalls) /\ roomCalls[c].op = "deleteRoom" /\ roomCalls[c].result = "ok")
            => PartitionOf(roomCalls[c].roomId) = {}

(* Members are added to a room, by calls that may race *)

MaxMemberCalls == 3

\* room r1 of U1 (admin) and U2 (member), made at time 1; no room r2
MemberTable == WithRoom(ThreeUsersTable, R1, RoomX, "GROUP", U1, <<U2>>, 1)

InitMembers == InitDirectory(MemberTable)

NextMembers ==
    \/ \E id \in RoomIds, u \in {U2, U3}, role \in {"MEMBER", "ADMIN"}, now \in {2, 3} :
          Len(roomCalls) < MaxMemberCalls /\ AddUserToRoomGet(id, u, role, now)
    \/ \E c \in DOMAIN roomCalls : AddUserToRoomPut(c)

SpecMembers == InitMembers /\ [][NextMembers]_vars

\* the membership items of a user in a room
MembershipsOf(t, roomId, userId) ==
    {k \in DOMAIN t : /\ t[k].entity = "MEMBERSHIP"
                      /\ t[k].roomId = roomId
                      /\ t[k].userId = userId}

\* C17: an addUserToRoom whose room has no metadata item when the call
\* reads it fails with 'Room not found' in that step, writes nothing, and
\* takes no later step: no membership item of that call is ever put.
C17_MissingRoomRefused ==
    [][/\ \A c \in DOMAIN roomCalls' \ DOMAIN roomCalls :
            LET call == roomCalls'[c]
            IN  (call.op = "addUserToRoom" /\ RoomKey(call.roomId) \notin DOMAIN table)
                    => /\ call.result = "RoomNotFound"
                       /\ call.pc = "done"
                       /\ table' = table
       /\ \A c \in DOMAIN roomCalls :
            roomCalls[c].result = "RoomNotFound" => roomCalls'[c] = roomCalls[c]]_vars

\* C17 witness: members were asked for in the room that does not exist, and
\* its partition is empty
C17_NoRoomNoMember ==
    \E c \in DOMAIN roomCalls :
        /\ roomCalls[c].op = "addUserToRoom"
        /\ roomCalls[c].roomId = R2
        /\ roomCalls[c].result = "RoomNotFound"
        /\ Len(roomCalls) = MaxMemberCalls
        /\ PartitionOf(R2) = {}

MaxSendCalls == 2

\* the texts of the frames: empty, white space only, and a text to trim
SendTexts == {<<>>, <<" ", "\t">>, <<" ", "a", "\n">>}

\* the tokens of the handshakes: of U1, a member of r1, of U3, who is not,
\* and one that is no JWT
SendTokens == {TokenOf(U1, Ann), TokenOf(U3, Ned), GarbageToken}

SendTable == WithRoom(ThreeUsersTable, R1, RoomX, "GROUP", U1, <<U2>>, 1)

InitSend ==
    /\ table = SendTable
    /\ authCalls = NoCalls
    /\ roomCalls = NoCalls
    /\ usedIds = {}
    /\ gateways \in {[i \in Instances |-> NewGateway(e)] : e \in BOOLEAN}
    /\ conns = NoCalls
    /\ channel = [i \in Instances |-> <<>>]
    /\ inbox = NoCalls

NextSend ==
    \/ \E i \in {"A", "B"} : Subscribe(i)
    \/ \E i \in {"A", "B"}, token \in SendTokens :
          Cardinality(DOMAIN conns) < MaxConns /\ handleConnection(i, token)
    \/ \E k \in DOMAIN conns : handleJoin(k, R1)
    \/ \E k \in DOMAIN conns, text \in SendTexts, claimed \in {U1, U2} :
          /\ Len(roomCalls) < MaxSendCalls
          /\ MessageIds \ usedIds # {}
          /\ handleMessage(k, [roomId |-> R1, text |-> text, userId |-> claimed],
                           FreshId(MessageIds), 9)
    \/ \E c \in DOMAIN roomCalls : CreateMessagePut(c)
    \/ \E c \in DOMAIN roomCalls : handleMessageRelay(c, TRUE)
    \/ \E i \in Instances : Receive(i)

SpecSend == InitSend /\ [][NextSend]_vars

\* a text with a character that is not white space
HasText(s) == \E i \in DOMAIN s : s[i] \notin Whitespace

\* the frames published and not yet received, and those delivered
FramesInFlight == UNION {{channel[i][n] : n \in DOMAIN channel[i]} : i \in DOMAIN channel}
FramesDelivered == UNION {{inbox[k][n] : n \in DOMAIN inbox[k]} : k \in DOMAIN inbox}

\* C19: a createMessage whose text is empty or white space only fails with
\* 'Message text is required' in its first step, and that step writes no
\* item, publishes nothing and delivers nothing; the call does nothing
\* after it. No message item and no frame, published or delivered, ever
\* carries a text without a visible character.
C19_BlankTextRefused ==
    /\ [](/\ \A k \in DOMAIN table : table[k].entity = "MESSAGE" => HasText(table[k].text)
          /\ \A f \in FramesInFlight \cup FramesDelivered : HasText(f.text))
    /\ [][/\ \A c \in DOMAIN roomCalls' \ DOMAIN roomCalls :
               (roomCalls'[c].op = "createMessage" /\ ~HasText(roomCalls'[c].text))
                   => /\ roomCalls'[c].result = "InvalidMessage"
                      /\ roomCalls'[c].pc = "done"
                      /\ table' = table /\ channel' = channel /\ inbox' = inbox
          /\ \A c \in DOMAIN roomCalls :
               roomCalls[c].result = "InvalidMessage" => roomCalls'[c] = roomCalls[c]]_vars

\* C19 witness: a member joined to the room sent two blank frames over a
\* gateway with a broker; both were refused, the room has no message and no
\* connection got a frame
C19_BlankFramesDropped ==
    /\ Len(roomCalls) = MaxSendCalls
    /\ \A c \in DOMAIN roomCalls :
          /\ roomCalls[c].result = "InvalidMessage"
          /\ roomCalls[c].userId = U1
          /\ roomCalls[c].conn \in DOMAIN conns
          /\ R1 \in conns[roomCalls[c].conn].rooms
          /\ gateways[conns[roomCalls[c].conn].instance].subscribed
    /\ RoomItems(R1, "MSG#") = {}
    /\ FramesInFlight \cup FramesDelivered = {}

\* C20: a createMessage with a text whose author has no membership item in
\* the room when the call reads it fails with 'User is not a room member',
\* writes nothing and does nothing after it; the step that ends a
\* createMessage with success adds one item to the table, the message of
\* that call, and changes no other item.
C20_OnlyMembersWriteOneMessage ==
    [][/\ \A c \in DOMAIN roomCalls' \ DOMAIN roomCalls :
            LET call == roomCalls'[c]
            IN  (/\ call.op = "createMessage"
                 /\ HasText(call.text)
                 /\ MemberKey(call.roomId, call.userId) \notin DOMAIN table)
                    => /\ call.result = "NotAMember"
                       /\ call.pc = "done"
                       /\ table' = table
       /\ \A c \in DOMAIN roomCalls :
            /\ roomCalls[c].result = "NotAMember" => roomCalls'[c] = roomCalls[c]
            /\ (/\ roomCalls[c].op = "createMessage"
                /\ roomCalls[c].result = "pending"
                /\ roomCalls'[c].result = "ok")
                   => \E k \in DOMAIN table' \ DOMAIN table :
                         /\ DOMAIN table' = DOMAIN table \cup {k}
                         /\ \A j \in DOMAIN table : table'[j] = table[j]
                         /\ table'[k].entity = "MESSAGE"
                         /\ table'[k].messageId = roomCalls[c].messageId
                         /\ table'[k].userId = roomCalls[c].userId
                         /\ table'[k].roomId = roomCalls[c].roomId]_vars

\* C20 witness: the stranger U3 was refused, the member U1 was served, and
\* the room holds one message, U1's
C20_StrangerRefusedMemberServed ==
    \E c, d \in DOMAIN roomCalls :
        /\ roomCalls[c].userId = U3 /\ roomCalls[c].result = "NotAMember"
        /\ roomCalls[d].userId = U1 /\ roomCalls[d].result = "ok"
        /\ Cardinality(RoomItems(R1, "MSG#")) = 1
        /\ \A k \in RoomItems(R1, "MSG#") : table[k].userId = U1

(* Listings of messages and of rooms *)

\* the message items stored for a room
MessagesOf(t, roomId) ==
    {k \in DOMAIN t : t[k].entity = "MESSAGE" /\ t[k].roomId = roomId}

\* C21 as stated: what getMessages returns is exactly the message items
\* stored for the room at that moment, each once, with its text and userId,
\* and nothing else.
C21_ListsExactlyTheStoredMessages ==
    [][\A c \in DOMAIN roomCalls' \ DOMAIN roomCalls :
          roomCalls'[c].op = "getMessages" =>
              LET ret == roomCalls'[c].ret
              IN  /\ {ret[i] : i \in DOMAIN ret}
                         = {MessageView(table[k]) : k \in MessagesOf(table, roomCalls'[c].roomId)}
                  /\ Len(ret) = Cardinality(MessagesOf(table, roomCalls'[c].roomId))]_vars

(* getRoomsForUser(userId) *)

\* the index GSI1: the keys of the items whose GSI1PK is pk, ascending by
\* GSI1SK
RECURSIVE SortByIndex(_, _)
SortByIndex(t, S) ==
    IF S = {} THEN <<>>
    ELSE LET first == CHOOSE k \in S : \A j \in S \ {k} : StrLess(t[k].GSI1SK, t[j].GSI1SK)
         IN  <<first>> \o SortByIndex(t, S \ {first})

QueryIndex(t, pk) ==
    SortByIndex(t, {k \in DOMAIN t : t[k].entity = "MEMBERSHIP" /\ t[k].GSI1PK = pk})

\* lines 530-575: the first membership of the room that is not the user's
\* own, with the username of its profile
resolveDirectPeer(t, roomId, currentUserId) ==
    LET memberships == SelectSeq(QueryKeys(t, RoomPK(roomId), <<>>, NoItem),
                                 LAMBDA k : t[k].entity = "MEMBERSHIP"
                                                /\ t[k].userId # currentUserId)
    IN  IF memberships = <<>> THEN Null
        ELSE LET peerUserId == t[memberships[1]].userId
                 profile == GetItem(t, ProfileKey(peerUserId))
             IN  [userId |-> peerUserId,
                  username |-> IF profile = NoItem THEN Undefined ELSE profile.username]

\* lines 182-200: what is returned for one membership item
RoomView(t, item, userId) ==
    [roomId |-> item.roomId, roomName |-> item.roomName, role |-> item.role,
     roomType |-> item.roomType,
     peer |-> IF item.roomType = "DIRECT" THEN resolveDirectPeer(t, item.roomId, userId)
              ELSE Undefined]

\* lines 159-203: one Query of the index, no ExclusiveStartKey and no loop
\* on LastEvaluatedKey: the first page, which the store ends after limit
\* items
GetRoomsForUser(userId, limit) ==
    /\ LET keys == PageOf(QueryIndex(table, <<"USER#">> \o userId), limit)
       IN  roomCalls' = Append(roomCalls,
               RoomFinish(NewRoomCall("getRoomsForUser", <<>>, userId), "ok",
                          [i \in DOMAIN keys |-> RoomView(table, table[keys[i]], userId)]))
    /\ UNCHANGED <<table, usedIds>>
    /\ RoomFrame

(* Rooms are made, joined, deleted and listed *)

MaxListCalls == 3

\* room r1 of U1 (admin) and U2, made at time 1
ListTable == WithRoom(ThreeUsersTable, R1, RoomX, "GROUP", U1, <<U2>>, 1)

InitList == InitDirectory(ListTable)

NextList ==
    \/ \E roomType \in {"DIRECT", "GROUP"}, names \in {<<>>, <<Dan>>, <<Ned>>} :
          Len(roomCalls) < MaxListCalls /\ CreateRoomCall(R2, 2, RoomX, U1, roomType, names)
    \/ \E c \in DOMAIN roomCalls : CreateRoomResolve(c)
    \/ \E c \in DOMAIN roomCalls : CreateRoomTransact(c)
    \/ \E id \in RoomIds : Len(roomCalls) < MaxListCalls /\ AddUserToRoomGet(id, U3, "MEMBER", 3)
    \/ \E c \in DOMAIN roomCalls : AddUserToRoomPut(c)
    \/ Len(roomCalls) < MaxListCalls /\ DeleteRoomGet(R1, U1)
    \/ \E c \in DOMAIN roomCalls, limit \in PageLimits : DeleteRoomQuery(c, limit)
    \/ \E c \in DOMAIN roomCalls, unprocessed \in {{}} \cup {{k} : k \in DOMAIN table} :
          DeleteRoomBatch(c, unprocessed)
    \/ \E u \in {U1, U2, U3}, limit \in {1, 5} :
          Len(roomCalls) < MaxListCalls /\ GetRoomsForUser(u, limit)

SpecList == InitList /\ [][NextList]_vars

\* the rooms in which a user has a membership item
RoomsOf(t, userId) == {id \in RoomIds : MemberKey(id, userId) \in DOMAIN t}

\* C22 as stated: what getRoomsForUser returns is exactly the rooms in
\* which the user has a membership item at that moment, each once and with
\* the name of the room's metadata item, and no room whose deleteRoom has
\* returned success.
C22_ListsExactlyTheUsersRooms ==
    [][\A c \in DOMAIN roomCalls' \ DOMAIN roomCalls :
          roomCalls'[c].op = "getRoomsForUser" =>
              LET ret == roomCalls'[c].ret
                  u == roomCalls'[c].userId
              IN  /\ {ret[i].roomId : i \in DOMAIN ret} = RoomsOf(table, u)
                  /\ Len(ret) = Cardinality(RoomsOf(table, u))
                  /\ \A i \in DOMAIN ret :
                        GetItem(table, RoomKey(ret[i].roomId)) # NoItem
                            => ret[i].roomName = table[RoomKey(ret[i].roomId)].roomName
                  /\ \A d \in DOMAIN roomCalls, i \in DOMAIN ret :
                        (roomCalls[d].op = "deleteRoom" /\ roomCalls[d].result = "ok")
                            => ret[i].roomId # roomCalls[d].roomId]_vars

(* What the gateways forward, and to whom *)

\* connection k got one frame more in this step, and it was f
GotFrame(k, f) == inbox'[k] = Append(inbox[k], f)

\* the frame of a send that is published in this step
PublishedNow(c) ==
    /\ roomCalls[c].pc = "relay"
    /\ roomCalls'[c].pc = "done"
    /\ roomCalls'[c].result = "ok"
    /\ gateways[conns[roomCalls[c].conn].instance].redisEnabled

\* instance i takes the next frame of its subscription in this step
ReceivedNow(i) == channel[i] # <<>> /\ channel'[i] = Tail(channel[i])

\* a connection gets at most one frame in a step, of a room it is in
DeliveredToJoinedOnly ==
    \A k \in DOMAIN inbox :
        inbox'[k] # inbox[k] =>
            \E f \in FramesInFlight' \cup FramesDelivered' :
                GotFrame(k, f) /\ f.roomId \in conns[k].rooms

\* a frame an instance receives goes to every connection of the instance
\* that is in the frame's room
ForwardedToJoined ==
    \A i \in Instances :
        ReceivedNow(i) =>
            \A k \in DOMAIN conns :
                (conns[k].instance = i /\ Head(channel[i]).roomId \in conns[k].rooms)
                    => GotFrame(k, Head(channel[i]))

\* C23 as stated: a frame is forwarded only to the connections of the
\* receiving instance that had joined the frame's room, and every instance
\* receives every published message.
C23_EveryInstanceReceivesAndFilters ==
    [][/\ DeliveredToJoinedOnly
       /\ ForwardedToJoined
       /\ \A c \in DOMAIN roomCalls :
             PublishedNow(c) =>
                 \A j \in Instances :
                     channel'[j] = Append(channel[j],
                                          FrameOf(roomCalls[c].ret, conns[roomCalls[c].conn].user))]_vars

\* C23 amended: ... and every instance whose subscription the broker holds
\* when a message is published receives it, whatever its room; an instance
\* that is not subscribed receives nothing.
C23_SubscribedInstancesReceiveAndFilter ==
    [][/\ DeliveredToJoinedOnly
       /\ ForwardedToJoined
       /\ \A c \in DOMAIN roomCalls :
             PublishedNow(c) =>
                 \A j \in Instances :
                     channel'[j] = IF gateways[j].subscribed
                                   THEN Append(channel[j],
                                               FrameOf(roomCalls[c].ret,
                                                       conns[roomCalls[c].conn].user))
                                   ELSE channel[j]]_vars

\* C23 witness: a message of room r1 reached a connection in r1; the
\* instance of a connection that is in r2 only received the frame as well
\* and did not forward it to that connection
C23_OtherRoomNotForwarded ==
    \E c \in DOMAIN roomCalls, k1, k2 \in DOMAIN conns :
        /\ Handled(c)
        /\ roomCalls[c].roomId = R1
        /\ R1 \in conns[k1].rooms
        /\ Copies(k1, c) = 1
        /\ conns[k2].connected
        /\ conns[k2].rooms = {R2}
        /\ conns[k2].instance # conns[k1].instance
        /\ conns[k2].instance \in roomCalls[c].reached
        /\ channel[conns[k2].instance] = <<>>
        /\ inbox[k2] = <<>>

(* sendMessage while the broker may refuse the PUBLISH *)

NextOutage ==
    \/ \E i \in {"A", "B"} : Subscribe(i)
    \/ \E i \in {"A", "B"} :
          Cardinality(DOMAIN conns) < MaxConns /\ handleConnection(i, TokenOf(U1, Ann))
    \/ \E k \in DOMAIN conns : handleJoin(k, R1)
    \/ \E k \in DOMAIN conns :
          /\ Len(roomCalls) < MaxSendCalls
          /\ MessageIds \ usedIds # {}
          /\ handleMessage(k, [roomId |-> R1, text |-> <<"a">>, userId |-> U1],
                           FreshId(MessageIds), 9)
    \/ \E c \in DOMAIN roomCalls : CreateMessagePut(c)
    \/ \E c \in DOMAIN roomCalls, available \in BOOLEAN : handleMessageRelay(c, available)
    \/ \E i \in Instances : Receive(i)

SpecOutage == InitSend /\ [][NextOutage]_vars

\* the message item a createMessage call has put
StoredBy(call) == MessageKey(call.roomId, call.createdAt, call.messageId)

\* C24 as stated: a sendMessage whose message was stored ends without
\* error, also when the broker does not take the PUBLISH, and its message
\* item stays in the store.
C24_PublishFailureNeverFailsTheSend ==
    \A c \in DOMAIN roomCalls :
        (roomCalls[c].op = "createMessage" /\ roomCalls[c].conn # 0
            /\ roomCalls[c].pc = "done" /\ roomCalls[c].messageId # <<>>)
        => /\ roomCalls[c].result = "ok"
           /\ StoredBy(roomCalls[c]) \in DOMAIN table

(* What is fanned out, by whom, and to whom *)

\* the message item a frame was made from
ItemOf(f) ==
    {k \in MessagesOf(table, f.roomId) :
        /\ table[k].messageId = f.id
        /\ table[k].text = f.text
        /\ table[k].userId = f.userId}

Rejected(call) == call.result \in {"NotAMember", "InvalidMessage"}

\* C25: every frame that was published or delivered is the frame of a
\* message item that is in the store, written before the frame was made,
\* with a text and by a member of the room; a send that createMessage
\* rejected publishes and delivers nothing, in the step that rejects it and
\* ever after.
C25_FanOutFollowsPersistence ==
    /\ [](\A f \in FramesInFlight \cup FramesDelivered :
              /\ ItemOf(f) # {}
              /\ HasText(f.text)
              /\ MemberKey(f.roomId, f.userId) \in DOMAIN table
              /\ \A c \in DOMAIN roomCalls : Rejected(roomCalls[c]) => roomCalls[c].messageId # f.id)
    /\ [][/\ \A c \in DOMAIN roomCalls' \ DOMAIN roomCalls :
               Rejected(roomCalls'[c]) => (channel' = channel /\ inbox' = inbox)
          /\ \A c \in DOMAIN roomCalls :
               Rejected(roomCalls[c]) => roomCalls'[c] = roomCalls[c]
          /\ \A c \in DOMAIN roomCalls :
               (roomCalls[c].pc = "relay" /\ roomCalls'[c].pc = "done")
                   => StoredBy(roomCalls[c]) \in DOMAIN table]_vars

\* C25 witness: the stranger's send was rejected, the member's was stored
\* and one frame, the member's, was delivered
C25_OnlyTheStoredWasDelivered ==
    \E c, d \in DOMAIN roomCalls, k \in DOMAIN conns :
        /\ roomCalls[c].result = "NotAMember"
        /\ roomCalls[d].result = "ok" /\ roomCalls[d].pc = "done"
        /\ StoredBy(roomCalls[d]) \in DOMAIN table
        /\ Copies(k, d) = 1
        /\ Cardinality(FramesDelivered) = 1

(* The life of a connection *)

\* connection k was made by a handshake without a token
NoCredential(k) == ~conns[k].hasToken

\* C26: a connection whose handshake carries no token is closed from the
\* step that makes it, with no user attached and in no room: it joins no
\* room, sends nothing and is delivered nothing.
C26_NoCredentialRefused ==
    \A k \in DOMAIN conns :
        NoCredential(k)
            => /\ ~conns[k].connected
               /\ conns[k].user = Null
               /\ conns[k].rooms = {}
               /\ inbox[k] = <<>>
               /\ \A c \in DOMAIN roomCalls : roomCalls[c].conn # k

\* C26 witness: a connection without a token was refused on an instance
\* where another connection joined a room and got a message
C26_RefusedBesideServed ==
    \E k, j \in DOMAIN conns, c \in DOMAIN roomCalls :
        /\ NoCredential(k)
        /\ inbox[k] = <<>>
        /\ conns[j].instance = conns[k].instance
        /\ j > k
        /\ Handled(c)
        /\ Copies(j, c) = 1

\* C27 as stated: a connection is in a room, and is delivered newMessage,
\* only if claims were extracted from its token; a connection whose token
\* yields no claims is never in a room.
C27_OnlyAuthenticatedSubscribe ==
    \A k \in DOMAIN conns :
        conns[k].user = Null => (conns[k].rooms = {} /\ inbox[k] = <<>>)

\* C28: the author of every send, and the userId of every message item
\* stored through sendMessage, is the sub of the claims attached to the
\* sending connection at its handshake, whatever userId the frame names; a
\* connection with no claims attached starts no send and stores nothing.
C28_AuthorIsTheHandshakeIdentity ==
    /\ \A c \in DOMAIN roomCalls :
          (roomCalls[c].op = "createMessage" /\ roomCalls[c].conn # 0)
              => /\ conns[roomCalls[c].conn].user # Null
                 /\ roomCalls[c].userId = conns[roomCalls[c].conn].user.sub
    /\ \A k \in MessagesOf(table, R1) :
          \E c \in DOMAIN roomCalls :
              /\ StoredBy(roomCalls[c]) = k
              /\ conns[roomCalls[c].conn].user # Null
              /\ table[k].userId = conns[roomCalls[c].conn].user.sub

\* C28 witness: two frames were sent over the connection of U1, each naming
\* U1 or U2 as its userId, and both messages are stored as U1's, beside an
\* open connection that has no claims
C28_StoredUnderTheSendersId ==
    \E k, j \in DOMAIN conns :
        /\ conns[k].user # Null /\ conns[k].user.sub = U1
        /\ conns[j].user = Null /\ conns[j].connected
        /\ Len(roomCalls) = MaxSendCalls
        /\ \A c \in DOMAIN roomCalls : roomCalls[c].conn = k /\ roomCalls[c].result = "ok"
        /\ Cardinality(MessagesOf(table, R1)) = MaxSendCalls
        /\ \A m \in MessagesOf(table, R1) : table[m].userId = U1

\* a send of a connection ends in this step with a local emit
EmittedLocallyNow(c) ==
    /\ roomCalls[c].pc = "relay"
    /\ roomCalls'[c].pc = "done"
    /\ roomCalls'[c].result = "ok"
    /\ ~gateways[conns[roomCalls[c].conn].instance].redisEnabled

\* C29: an open connection can join any room it is not in, whether or not
\* its user has a membership item in the room; once in the room it is
\* delivered every frame of the room that its instance receives or emits;
\* and a send of a user without a membership item is rejected all the same.
C29_JoinWithoutMembership ==
    /\ [](\A k \in DOMAIN conns :
              (conns[k].connected /\ R1 \notin conns[k].rooms) => ENABLED handleJoin(k, R1))
    /\ [][/\ ForwardedToJoined
          /\ \A c \in DOMAIN roomCalls :
                EmittedLocallyNow(c) =>
                    \A k \in DOMAIN conns :
                        (/\ conns[k].instance = conns[roomCalls[c].conn].instance
                         /\ roomCalls[c].roomId \in conns[k].rooms)
                            => GotFrame(k, FrameOf(roomCalls[c].ret, conns[roomCalls[c].conn].user))
          /\ \A c \in DOMAIN roomCalls' \ DOMAIN roomCalls :
                (/\ roomCalls'[c].op = "createMessage"
                 /\ MemberKey(roomCalls'[c].roomId, roomCalls'[c].userId) \notin DOMAIN table)
                    => Rejected(roomCalls'[c])]_vars

\* C29 witness: the connection of U3, who has no membership in r1, is in
\* r1 and was delivered U1's message; its own send was rejected
C29_StrangerListens ==
    \E k \in DOMAIN conns, c, d \in DOMAIN roomCalls :
        /\ conns[k].user # Null /\ conns[k].user.sub = U3
        /\ MemberKey(R1, U3) \notin DOMAIN table
        /\ R1 \in conns[k].rooms
        /\ roomCalls[c].userId = U1 /\ roomCalls[c].result = "ok"
        /\ Copies(k, c) = 1
        /\ roomCalls[d].conn = k /\ roomCalls[d].result = "NotAMember"

\* C30: a connection that has closed is in no room and is delivered
\* nothing from then on, also when a send of its own was waiting for the
\* store as it closed; that send is still published or emitted, and every
\* connection that is in the room gets the frames its instance receives or
\* emits.
C30_NothingAfterDisconnect ==
    /\ [](\A k \in DOMAIN conns : ~conns[k].connected => conns[k].rooms = {})
    /\ [][/\ \A k \in DOMAIN conns : ~conns[k].connected => inbox'[k] = inbox[k]
          /\ \A k \in DOMAIN conns :
                (conns[k].connected /\ ~conns'[k].connected) => inbox'[k] = inbox[k]
          /\ ForwardedToJoined
          /\ \A c \in DOMAIN roomCalls :
                EmittedLocallyNow(c) =>
                    \A k \in DOMAIN conns :
                        (/\ conns[k].instance = conns[roomCalls[c].conn].instance
                         /\ roomCalls[c].roomId \in conns[k].rooms)
                            => GotFrame(k, FrameOf(roomCalls[c].ret, conns[roomCalls[c].conn].user))]_vars

\* C30 witness: the sender closed before its message was fanned out; the
\* message was stored and handed on, the other connection, which is in the
\* room, got it, the sender's got nothing
C30_SenderGoneOthersServed ==
    \E c \in DOMAIN roomCalls, k, j \in DOMAIN conns :
        /\ Handled(c)
        /\ roomCalls[c].conn = k
        /\ ~conns[k].connected /\ conns[k].user # Null
        /\ k \notin roomCalls[c].audience
        /\ inbox[k] = <<>>
        /\ j # k /\ conns[j].connected
        /\ j \in roomCalls[c].audience
        /\ Copies(j, c) = 1

----------------------------------------------------------------------------
(* Renames: cancellation, ownership of reservations, no-op calls *)

\* the TransactItems a suspended rename is about to send
ItemsOf(call) ==
    IF call.op = "updateUsernameForUser"
    THEN UpdateUsernameItems(call.userId, call.profile,
                             call.nextUsername, call.currentUsername)
    ELSE UpdateProfileItems(call.userId, call.nextProfile,
                            call.nextUsername, call.currentUsername)

\* C31: a rename that sends its transaction returns at that step, having
\* sent exactly one write request; if the store cancelled the transaction,
\* whichever condition failed, the call throws UsernameTaken; and no rename
\* call ever sends more than one transaction.
C31_CancellationIsConflictNoRetry ==
    /\ [][\A c \in DOMAIN authCalls :
            (authCalls[c].pc = "txn" /\ authCalls'[c] # authCalls[c]) =>
                /\ authCalls'[c].pc = "done"
                /\ authCalls'[c].writes = 1
                /\ ~TransactOk(table, ItemsOf(authCalls[c])) =>
                       /\ authCalls'[c].result = "UsernameTaken"
                       /\ table' = table]_vars
    /\ [](\A c \in DOMAIN authCalls :
            IsRename(authCalls[c]) => authCalls[c].writes <= 1)

\* C31 witness: bob was taken by one rename, and two later renames to bob
\* of the other user, one through each method, were each cancelled after
\* one transaction
C31_BothMethodsCancelledOnce ==
    \E w, a, b \in DOMAIN authCalls :
        /\ authCalls[w].reserved = Bob
        /\ authCalls[a].op = "updateUsernameForUser"
        /\ authCalls[b].op = "updateProfileForUser"
        /\ \A c \in {a, b} :
              /\ authCalls[c].userId # authCalls[w].userId
              /\ authCalls[c].result = "UsernameTaken"
              /\ authCalls[c].writes = 1

----------------------------------------------------------------------------
(* Every operation beside a room that exists *)

\* Bounds: the number of RoomsService calls and of renames of one behaviour
MaxOpsCalls == 3
MaxOpsRenames == 1

\* room r1 of U1 (admin) and U2, made at time 1; U3 is no member
OpsTable == WithRoom(ThreeUsersTable, R1, RoomX, "GROUP", U1, <<U2>>, 1)

InitOps == InitDirectory(OpsTable)

NextOps ==
    \/ \E u \in {U1, U3} :
          Len(roomCalls) < MaxOpsCalls /\ CreateRoomCall(R2, 2, RoomX, u, "GROUP", <<>>)
    \/ \E c \in DOMAIN roomCalls : CreateRoomTransact(c)
    \/ \E role \in {"MEMBER", "ADMIN"} :
          Len(roomCalls) < MaxOpsCalls /\ AddUserToRoomGet(R1, U3, role, 3)
    \/ \E c \in DOMAIN roomCalls : AddUserToRoomPut(c)
    \/ /\ Len(roomCalls) < MaxOpsCalls
       /\ MessageIds \ usedIds # {}
       /\ CreateMessageGet(R1, U2, Dan, <<"a">>, FreshId(MessageIds), 9, 0)
    \/ \E c \in DOMAIN roomCalls : CreateMessagePut(c)
    \/ Len(authCalls) < MaxOpsRenames /\ UpdateUsernameGet(U1, <<"B", "o", "b">>)
    \/ \E c \in DOMAIN authCalls : UpdateUsernameTransact(c)
    \/ Len(roomCalls) < MaxOpsCalls /\ GetMessages(R1, 5)
    \/ \E u \in {U1, U3} : Len(roomCalls) < MaxOpsCalls /\ GetRoomsForUser(u, 5)
    \/ Len(roomCalls) < MaxOpsCalls /\ DeleteRoomGet(R1, U1)
    \/ \E c \in DOMAIN roomCalls, limit \in PageLimits : DeleteRoomQuery(c, limit)
    \/ \E c \in DOMAIN roomCalls, unprocessed \in {{}} \cup {{k} : k \in DOMAIN table} :
          DeleteRoomBatch(c, unprocessed)

SpecOps == InitOps /\ [][NextOps]_vars

\* the metadata items of the table
MetaKeys(t) == {k \in DOMAIN t : k.SK = <<"META">>}

\* a step of a deleteRoom call
DeleteRoomStep ==
    \E c \in DOMAIN roomCalls :
        roomCalls[c].op = "deleteRoom" /\ roomCalls'[c] # roomCalls[c]

\* C32: a room's metadata item, once in the table, is neither changed nor
\* removed by any step that is not a step of deleteRoom: not by createRoom
\* of another room, addUserToRoom, createMessage, a rename or a listing.
C32_MetadataImmutable ==
    [][\A k \in MetaKeys(table) :
          DeleteRoomStep \/ (k \in DOMAIN table' /\ table'[k] = table[k])]_vars

\* C32 witness: beside room r1 a second room was created, a member added, a
\* message posted and a user renamed, and the metadata item of r1 is the
\* one createRoom wrote
C32_MetadataKeptThroughWrites ==
    /\ RoomKey(R2) \in DOMAIN table
    /\ MemberKey(R1, U3) \in DOMAIN table
    /\ RoomItems(R1, "MSG#") # {}
    /\ \E c \in DOMAIN authCalls : authCalls[c].reserved = Bob
    /\ GetItem(table, RoomKey(R1)) =
           RoomItem(R1, RoomX, "GROUP", U1, toISOString(1))

\* C33 as stated: the transaction of a rename removes no reservation item
\* that points to another user than the one renaming, under any
\* interleaving of renames.
C33_RenameDeletesOnlyOwnReservation ==
    [][\A c \in DOMAIN authCalls :
          (authCalls[c].pc = "txn" /\ authCalls'[c].pc = "done") =>
              \A k \in ReservationKeys :
                  k \notin DOMAIN table' => table[k].userId = authCalls[c].userId]_vars

----------------------------------------------------------------------------
(* A room is deleted while members are added and messages posted *)

\* Bound: the number of RoomsService calls of one behaviour
MaxOverlapCalls == 3

InitOverlap == InitDirectory(OpsTable)

\* every BatchWriteCommand is processed whole
NextOverlap ==
    \/ Len(roomCalls) < MaxOverlapCalls /\ AddUserToRoomGet(R1, U3, "MEMBER", 3)
    \/ \E c \in DOMAIN roomCalls : AddUserToRoomPut(c)
    \/ /\ Len(roomCalls) < MaxOverlapCalls
       /\ MessageIds \ usedIds # {}
       /\ CreateMessageGet(R1, U2, Dan, <<"a">>, FreshId(MessageIds), 9, 0)
    \/ \E c \in DOMAIN roomCalls : CreateMessagePut(c)
    \/ Len(roomCalls) < MaxOverlapCalls /\ DeleteRoomGet(R1, U1)
    \/ \E c \in DOMAIN roomCalls, limit \in PageLimits : DeleteRoomQuery(c, limit)
    \/ \E c \in DOMAIN roomCalls : DeleteRoomBatch(c, {})

SpecOverlap == InitOverlap /\ [][NextOverlap]_vars

\* C34 as stated: once a deleteRoom has returned success and every
\* createMessage and addUserToRoom call has finished, no membership or
\* message item of the room is in the table.
C34_NothingLeftAfterDelete ==
    (/\ Quiet
     /\ \E c \in DOMAIN roomCalls :
           roomCalls[c].op = "deleteRoom" /\ roomCalls[c].result = "ok")
        => RoomItems(R1, "MEMBER#") \cup RoomItems(R1, "MSG#") = {}

----------------------------------------------------------------------------
(* Account creation and its reservations *)

\* the reservation items that point to a user
ReservationsOf(userId) == {k \in ReservationKeys : table[k].userId = userId}

\* C35 as stated: once every ensureUserProfile call of the new user u3 has
\* returned or thrown, the reservation items that point to u3 are exactly
\* one, that of the username in u3's profile.
C35_NoOrphanReservation ==
    (/\ \E c \in DOMAIN authCalls : authCalls[c].op = "ensureUserProfile"
     /\ \A c \in DOMAIN authCalls :
           authCalls[c].op = "ensureUserProfile" => authCalls[c].pc = "done")
        => /\ ProfileKey(U3) \in DOMAIN table
           /\ ReservationsOf(U3) = {UsernameKey(table[ProfileKey(U3)].username)}

----------------------------------------------------------------------------
(* RoomsController: a signed-in user who is no member of the room *)

\* part_002 lines 57-75, POST :roomId/add: the handler has no @Req
\* parameter; the user and the role of the new membership are those of the
\* body, whoever is signed in
ControllerAddUserToRoom(requesterId, roomId, body, now) ==
    AddUserToRoomGet(roomId, body.userId, body.role, now)

\* part_002 lines 102-106, DELETE :roomId: the requester is the session's user
ControllerDeleteRoom(requesterId, roomId) == DeleteRoomGet(roomId, requesterId)

\* Bound: the number of requests of one behaviour
MaxIntruderCalls == 4

InitIntruder == InitDirectory(OpsTable)

\* every request is made by u3
NextIntruder ==
    \/ \E role \in {"MEMBER", "ADMIN"} :
          /\ Len(roomCalls) < MaxIntruderCalls
          /\ ControllerAddUserToRoom(U3, R1, [userId |-> U3, role |-> role], 3)
    \/ \E c \in DOMAIN roomCalls : AddUserToRoomPut(c)
    \/ Len(roomCalls) < MaxIntruderCalls /\ ControllerDeleteRoom(U3, R1)
    \/ \E c \in DOMAIN roomCalls, limit \in PageLimits : DeleteRoomQuery(c, limit)
    \/ \E c \in DOMAIN roomCalls, unprocessed \in {{}} \cup {{k} : k \in DOMAIN table} :
          DeleteRoomBatch(c, unprocessed)

SpecIntruder == InitIntruder /\ [][NextIntruder]_vars

\* C36 as stated: u3, who is not the creator of room r1 and to whom no
\* admin of r1 granted a role, gets no deleteRoom past the admin check by
\* any sequence of add and delete requests of their own: every such
\* deleteRoom is refused and the room's items stay.
C36_StrangerCannotDelete ==
    /\ \A c \in DOMAIN roomCalls :
          roomCalls[c].op = "deleteRoom" => roomCalls[c].result = "NotAdmin"
    /\ RoomKey(R1) \in DOMAIN table

----------------------------------------------------------------------------
(* The delete loop of deleteRoom on rooms larger than one batch *)

\* Bounds: the calls of one behaviour, and the messages of the room
MaxLoopCalls == 1
MaxLoopMessages == 25

\* the page sizes the store answers a Query with: pages smaller than a
\* batch, one item more than a batch, the whole room
LoopLimits == {3, 7, BatchSize + 1, 40}

\* the messages of the room: with its metadata and two membership items
\* the room has 3 items, 7 (one page exactly), 25 (one batch exactly), 28
LoopSizes == {0, 4, BatchSize - 3, MaxLoopMessages}

InitLoop == \E n \in LoopSizes : InitDirectory(PurgeTable(n))

LoopQuery == \E c \in DOMAIN roomCalls, limit \in LoopLimits : DeleteRoomQuery(c, limit)

LoopBatch ==
    \E c \in DOMAIN roomCalls, unprocessed \in {{}} \cup {{k} : k \in DOMAIN table} :
        DeleteRoomBatch(c, unprocessed)

NextLoop ==
    \/ Len(roomCalls) < MaxLoopCalls /\ DeleteRoomGet(R1, U1)
    \/ LoopQuery
    \/ LoopBatch

\* a call waits for the answer of its Query, of its BatchWriteCommand
QueryPending == \E c \in DOMAIN roomCalls : roomCalls[c].pc = "query"
BatchPending == \E c \in DOMAIN roomCalls : roomCalls[c].pc = "batch"

\* The event loop resumes the call after each answer of the store: weak
\* fairness of the two steps of the loop, WF_vars(LoopQuery) and
\* WF_vars(LoopBatch), written out with the guard of each step in the place
\* of ENABLED (a call at "query" can always run its Query, a call at
\* "batch" has a chunk to send and the store may process it whole).
SpecLoop ==
    /\ InitLoop
    /\ [][NextLoop]_vars
    /\ ([]<>(~QueryPending) \/ []<><<LoopQuery>>_vars)
    /\ ([]<>(~BatchPending) \/ []<><<LoopBatch>>_vars)

\* the keys of a sequence of batches, in the order sent
RECURSIVE Flatten(_)
Flatten(batches) ==
    IF batches = <<>> THEN <<>> ELSE Head(batches) \o Flatten(Tail(batches))

\* the keys a call has put in batches so far, sent or about to be sent
Batched(call) == Flatten(call.batches) \o Flatten(call.chunks)

\* the first call is in its loop, has left it with success
InLoop == IF roomCalls = <<>> THEN FALSE ELSE roomCalls[1].pc \in {"query", "batch"}
LoopEnded ==
    IF roomCalls = <<>> THEN FALSE
    ELSE roomCalls[1].pc = "done" /\ roomCalls[1].result = "ok"

\* C37: the delete loop of a deleteRoom that passed the admin check comes
\* to its end and returns success, whatever the size of the room and of
\* the pages; every batch carries at least one and at most 25 keys; a step
\* of the Query puts the keys of its page, each once and in order, into the
\* chunks to send, and no key is put in two batches; when the loop has
\* ended every item of the room that is still in the table was in a batch.
C37_LoopEndsBatchesBounded ==
    /\ InLoop ~> LoopEnded
    /\ [](\A c \in DOMAIN roomCalls :
            LET call == roomCalls[c]
                keys == Batched(call)
            IN  /\ \A i \in DOMAIN call.batches :
                      Len(call.batches[i]) \in 1..BatchSize
                /\ \A i \in DOMAIN call.chunks :
                      Len(call.chunks[i]) \in 1..BatchSize
                /\ \A i, j \in DOMAIN keys : i < j => StrLess(keys[i].SK, keys[j].SK)
                /\ call.result = "ok" =>
                      \A k \in DOMAIN table :
                          k.PK = RoomPK(R1) => \E i \in DOMAIN keys : keys[i] = k)
    /\ [][\A c \in DOMAIN roomCalls :
            (roomCalls[c].pc = "query" /\ roomCalls'[c] # roomCalls[c]) =>
                \E limit \in LoopLimits :
                    Flatten(roomCalls'[c].chunks) =
                        PageOf(QueryKeys(table, RoomPK(R1), <<>>, roomCalls[c].lastKey),
                               limit)]_vars

\* C37 witness: a room of 28 items was deleted in more than two batches,
\* one of them of 25 keys, and the call returned success
C37_LargeRoomDeleted ==
    \E c \in DOMAIN roomCalls :
        /\ roomCalls[c].result = "ok"
        /\ Len(roomCalls[c].batches) > 2
        /\ \E i \in DOMAIN roomCalls[c].batches : Len(roomCalls[c].batches[i]) = BatchSize
        /\ Len(Flatten(roomCalls[c].batches)) = MaxLoopMessages + 3

----------------------------------------------------------------------------
(* Calls that ask for the username the user already holds *)

\* Bound: the number of AuthService calls of one behaviour
MaxNoopCalls == 3

\* the claims of a later sign-in of u1, whose profile says ann
InfoU1Zed == [sub |-> U1, preferred_username |-> <<"Z", "e", "d">>, email |-> <<>>]

\* ann as clients spell it
SameNameRaws == {<<"A", "N", "N">>, <<" ", "a", "n", "N">>}

\* u1 asks for the name it holds, through each method, and signs in again,
\* beside a real rename of u1 and a rename of u2
NextNoop ==
    \/ \E raw \in SameNameRaws :
          Len(authCalls) < MaxNoopCalls /\ UpdateUsernameGet(U1, raw)
    \/ \E raw \in SameNameRaws :
          Len(authCalls) < MaxNoopCalls /\ UpdateProfileGet(U1, TRUE, raw)
    \/ Len(authCalls) < MaxNoopCalls /\ UpdateProfileGet(U1, FALSE, <<>>)
    \/ Len(authCalls) < MaxNoopCalls /\ EnsureUserProfileGet(InfoU1Zed)
    \/ \E u \in {U1, U2} :
          Len(authCalls) < MaxNoopCalls /\ UpdateUsernameGet(u, <<"B", "o", "b">>)
    \/ \E c \in DOMAIN authCalls : UpdateUsernameTransact(c)
    \/ \E c \in DOMAIN authCalls : UpdateProfilePut(c)
    \/ \E c \in DOMAIN authCalls : UpdateProfileTransact(c)

SpecNoop == InitUsers /\ [][NextNoop]_vars

\* the reservation items of a table
Reservations(t) == [k \in {x \in DOMAIN t : x.SK = <<"USER">>} |-> t[k]]

\* the username asked for by a call, as typed, without regard to case and
\* surrounding white space
AskedFor(call) == ToLowerCase(Trim(call.raw))

\* C38: a rename whose target is, in any letter case, the username that the
\* user's profile holds when the call reads it, and an ensureUserProfile of
\* a user whose profile has a username, return that username; the two that
\* return at once change no item, and updateProfileForUser, which puts the
\* profile back, sends no transaction and creates or deletes no reservation
\* item.
C38_SameUsernameChangesNoReservation ==
    /\ [][\A c \in DOMAIN authCalls' \ DOMAIN authCalls :
            LET call == authCalls'[c]
                held == UsernameOf(GetItem(table, ProfileKey(call.userId)))
            IN  /\ (call.op = "updateUsernameForUser" /\ AskedFor(call) = held) =>
                       /\ call.pc = "done" /\ call.result = "ok" /\ call.ret = held
                       /\ table' = table
                /\ (call.op = "ensureUserProfile" /\ held # <<>>) =>
                       /\ call.pc = "done" /\ call.result = "ok" /\ call.ret = held
                       /\ table' = table
                /\ (call.op = "updateProfileForUser" /\ held # <<>>
                      /\ (~call.hasUsername \/ AskedFor(call) = held)) =>
                       /\ call.pc = "put" /\ call.nextProfile.username = held
                       /\ table' = table]_vars
    /\ [][\A c \in DOMAIN authCalls :
            (authCalls[c].pc = "put" /\ authCalls'[c] # authCalls[c]) =>
                /\ authCalls'[c].pc = "done"
                /\ authCalls'[c].result = "ok"
                /\ authCalls'[c].ret = authCalls[c].nextProfile.username
                /\ authCalls'[c].reserved = <<>>
                /\ Reservations(table') = Reservations(table)]_vars

\* C38 witness: u1, who holds ann, asked for ANN through both methods and
\* signed in again; the three calls returned ann, and the reservation of
\* ann and the profile are as they were
C38_ThreeCallsNothingChanged ==
    /\ \E a, b, e \in DOMAIN authCalls :
          /\ authCalls[a].op = "updateUsernameForUser"
          /\ authCalls[b].op = "updateProfileForUser" /\ authCalls[b].hasUsername
          /\ authCalls[e].op = "ensureUserProfile"
          /\ \A c \in {a, b, e} :
                /\ authCalls[c].raw \in SameNameRaws \cup {<<>>}
                /\ authCalls[c].pc = "done"
                /\ authCalls[c].ret = Ann
    /\ table = RegisteredTable

============================================================================
